---- MODULE Spec2Model ----
(***************************************************************************)
(* Verification model of the lattice-polytope normal-form engine of        *)
(* src/build/pkgs/palp/patches/Polynf.c: the GL(n,Z) and SL(n,Z) echelon   *)
(* reductions, the canonical labelling of vertex pairing matrices and the  *)
(* polytope normal form built from them.                                   *)
(*                                                                         *)
(* C arrays are modelled as functions on 0..k-1, so that indices read as   *)
(* in the source.  Integers are unbounded: the inputs drawn below keep     *)
(* every intermediate value far inside the range of Long.                  *)
(***************************************************************************)
EXTENDS Integers, Sequences, FiniteSets, TLC

VARIABLES
    X,      \* the caller's matrix X[][] (overwritten on return)
    Xin,    \* history: the matrix X held when the reduction was entered
    n,      \* *n , number of lines of X
    nv,     \* *nv, number of columns of X
    NF,     \* local NF[][] of the running reduction
    G,      \* transform G[][] of GLZ_Make_Trian_NF
    S,      \* transform S[][] of SL2Z_Make_Poly_NF
    C,      \* column counter C of the running reduction
    L,      \* line counter L of the running reduction
    ret,    \* value returned (-1 while running)
    pc      \* position of the running reduction

VARIABLES
    VPM,    \* the vertex pairing matrix x[][] handed to Make_VPM_NF
    Xnf,    \* _X->nf, its number of lines (facets)
    Xnv,    \* _X->nv, its number of columns (vertices)
    CL,     \* the candidates CL[0..ns-1], each with its L[] and C[]
    ns,     \* *ns, the number of candidates
    Sblk,   \* the array S[] of Make_VPM_NF: the blocks of equivalent columns
    VPM_NF, \* the output VPM_NF[][]
    line,   \* the loop counter i of Make_VPM_NF: the next line to fix
    vpc     \* position of Make_VPM_NF

VARIABLES
    Poly,   \* the polytope _P, _V, _F handed to Make_Poly_NF
    Img,    \* the same polytope in another basis or with other labels
    how,    \* how Img was obtained from Poly
    pNF,    \* pNF[][] of Make_Poly_NF(Poly)
    pRef,   \* the value Make_Poly_NF(Poly) returned
    imgNF,  \* pNF[][] of Make_Poly_NF(Img)
    imgRef, \* the value Make_Poly_NF(Img) returned
    SymNum, \* *SymNum of Make_Poly_Sym_NF(Poly)
    V_perm, \* the lines of V_perm[][] that Make_Poly_Sym_NF(Poly) wrote
    SymNF,  \* NF[][] of Make_Poly_Sym_NF(Poly)
    symNs,  \* the value Make_Poly_Sym_NF(Poly) returned
    ppc     \* position of the caller of Make_Poly_NF and Make_Poly_Sym_NF

VARIABLES
    arg,    \* the arguments of a function that is called on its own
    out,    \* what that function returned or left in its outputs
    cpc     \* position of its caller

redVars == <<X, Xin, n, nv, NF, G, S, C, L, ret, pc>>

vpmVars == <<VPM, Xnf, Xnv, CL, ns, Sblk, VPM_NF, line, vpc>>

polyVars == <<Poly, Img, how, pNF, pRef, imgNF, imgRef, SymNum, V_perm,
              SymNF, symNs, ppc>>

callVars == <<arg, out, cpc>>

vars == <<redVars, vpmVars, polyVars, callVars>>

\* no reduction is running
ReductionIdle ==
    /\ X = << >> /\ Xin = << >> /\ n = 0 /\ nv = 0 /\ NF = << >>
    /\ G = << >> /\ S = << >> /\ C = -1 /\ L = 0 /\ ret = -1 /\ pc = "idle"

\* no polytope is held
PolyIdle ==
    /\ Poly = << >> /\ Img = << >> /\ how = "" /\ pNF = << >> /\ pRef = -1
    /\ imgNF = << >> /\ imgRef = -1 /\ SymNum = 0 /\ V_perm = << >>
    /\ SymNF = << >> /\ symNs = 0 /\ ppc = "idle"

\* no function is called on its own
CallIdle == arg = << >> /\ out = << >> /\ cpc = "idle"

\* Make_VPM_NF is not running
VPMIdle ==
    /\ VPM = << >> /\ Xnf = 0 /\ Xnv = 0 /\ CL = << >> /\ ns = 0
    /\ Sblk = << >> /\ VPM_NF = << >> /\ line = 0 /\ vpc = "idle"

-----------------------------------------------------------------------------
(* Bounds of the inputs                                                    *)

\* largest number of lines of a matrix handed to a reduction
MaxDim == 3
\* largest number of columns of a matrix handed to a reduction
MaxCols == 3
\* largest |entry| of a matrix handed to a reduction
MaxEntry == 1
\* largest sum of |entry| of a matrix before one column is scaled up
MaxBigNorm == 2
\* largest number of lines (facets) of a vertex pairing matrix
MaxFacets == 4
\* largest number of columns (vertices) of a vertex pairing matrix
MaxVerts == 3
\* largest entry of a vertex pairing matrix
MaxPairing == 1
\* the ceiling SYM_Nmax of Global.h on the number of candidates, which
\* Polynf.c uses and does not define; chosen so that the inputs reach it
SYM_Nmax == 8
\* the ceiling VERT_Nmax of Global.h on the number of points and vertices,
\* which Polynf.c uses and does not define; above every input of the model
VERT_Nmax == 64
\* largest |coordinate| of a vertex of an input polytope
MaxCoord == 1
\* largest |entry| of a matrix that changes the basis of the lattice
MaxBasisEntry == 1
\* largest number of vertices of a polytope whose vertices and facets are
\* relabelled in every possible way
MaxRelabelled == 3
\* largest |N| and largest |D| of a quotient handed to GL_RoundQ
MaxNumerator == 12
MaxDenominator == 6
\* largest number of entries and largest |entry| of a vector W handed to
\* GL_W_to_GLZ
MaxWLen == 4
MaxWEntry == 4
\* largest numbers of lines and columns and largest entry of a matrix VPM_NF
\* handed to New_pNF_Order
MaxOrderLines == 2
MaxOrderCols == 3
MaxOrderEntry == 2
\* largest number of lines of a matrix reduced together with its images
\* under the changes of basis of its lines
MaxLatticeDim == 2

-----------------------------------------------------------------------------
(* Arithmetic of C                                                         *)

Abs(a) == IF a < 0 THEN -a ELSE a

\* a / b of C: the quotient truncated towards zero
CDiv(a, b) ==
    IF (a < 0) = (b < 0) THEN Abs(a) \div Abs(b) ELSE -(Abs(a) \div Abs(b))

\* a % b of C: the remainder that goes with CDiv
CMod(a, b) == a - b * CDiv(a, b)

RECURSIVE SumF(_, _, _)
\* f[lo] + ... + f[hi]
SumF(f, lo, hi) == IF hi < lo THEN 0 ELSE f[hi] + SumF(f, lo, hi - 1)

Idx(k) == 0 .. (k - 1)

\* F of the value x, x being computed once
With(x, F(_)) == F(x)

RECURSIVE Unpermuted(_)
\* the array 0, 1, .., k-1 of "for(i=0;i<k;i++) p[i]=i;"
Unpermuted(k) == IF k <= 0 THEN << >> ELSE Unpermuted(k - 1) @@ ((k - 1) :> (k - 1))

\* (i==j) as filled in by "init G"
Identity(d) == [i \in Idx(d) |-> [j \in Idx(d) |-> IF i = j THEN 1 ELSE 0]]

Zero(d, v) == [i \in Idx(d) |-> [j \in Idx(v) |-> 0]]

\* the product A * B of a d x m and an m x v matrix
MatMul(A, B, d, m, v) ==
    [i \in Idx(d) |-> [j \in Idx(v) |->
        SumF([k \in Idx(m) |-> A[i][k] * B[k][j]], 0, m - 1)]]

\* M without line 0 and column c
Minor(M, k, c) ==
    [i \in Idx(k - 1) |-> [j \in Idx(k - 1) |->
        M[i + 1][IF j < c THEN j ELSE j + 1]]]

RECURSIVE Det(_, _)
\* the determinant of the k x k matrix M, expanded along line 0
Det(M, k) ==
    IF k = 0 THEN 1
    ELSE IF k = 1 THEN M[0][0]
    ELSE SumF([c \in Idx(k) |->
                 (IF c % 2 = 0 THEN 1 ELSE -1) * M[0][c] * Det(Minor(M, k, c), k - 1)],
              0, k - 1)

\* the d x v matrix M has rank d: some d of its columns have a non-zero
\* determinant
HasFullRank(M, d, v) ==
    \E f \in [Idx(d) -> Idx(v)] :
        /\ \A i \in Idx(d) : \A j \in Idx(d) : i < j => f[i] < f[j]
        /\ Det([i \in Idx(d) |-> [j \in Idx(d) |-> M[i][f[j]]]], d) # 0

\* M without line r and column c
MinorAt(M, k, r, c) ==
    [i \in Idx(k - 1) |-> [j \in Idx(k - 1) |->
        M[IF i < r THEN i ELSE i + 1][IF j < c THEN j ELSE j + 1]]]

\* the inverse of the k x k matrix M of determinant 1 or -1
Inverse(M, k) ==
    [i \in Idx(k) |-> [j \in Idx(k) |->
        Det(M, k) * (IF (i + j) % 2 = 0 THEN 1 ELSE -1)
                  * Det(MinorAt(M, k, j, i), k - 1)]]

RECURSIVE Gcd(_, _)
\* the greatest common divisor of a >= 0 and b >= 0
Gcd(a, b) == IF b = 0 THEN a ELSE Gcd(b, a % b)

-----------------------------------------------------------------------------
(* GL_Egcd, GL_RoundQ, GL_W_to_GLZ                                         *)

RECURSIVE EgcdLoop(_, _, _, _)
\* the while loop of GL_Egcd / SL_Egcd: <<A1, X1>> when A0 % A1 becomes 0
EgcdLoop(A0, A1, X0, X1) ==
    LET A2 == CMod(A0, A1)
    IN  IF A2 = 0 THEN <<A1, X1>>
        ELSE EgcdLoop(A1, A2, X1, X0 - X1 * CDiv(A0, A1))

\* GL_Egcd with *Vout1 = X1 as well
GL_Egcd_OneCofactor(A0, A1) ==
    LET r == EgcdLoop(A0, A1, 1, 0)
    IN  [g |-> r[1], a |-> r[2], b |-> r[2]]

\* GL_Egcd(A0,A1,&Vout0,&Vout1): the returned value and the two outputs
GL_Egcd(A0, A1) ==
    LET r == EgcdLoop(A0, A1, 1, 0)
    IN  [g |-> r[1], a |-> r[2], b |-> CDiv(r[1] - A0 * r[2], A1)]

\* "F=N/D; return F;": the quotient of C, not rounded
GL_RoundQ_Truncated(N0, D0) == CDiv(N0, D0)

\* GL_RoundQ(N,D)
GL_RoundQ(N0, D0) ==
    LET D == IF D0 < 0 THEN -D0 ELSE D0
        N == IF D0 < 0 THEN -N0 ELSE N0
        F == CDiv(N, D)
    IN  F + CDiv(2 * (N - F * D), D)

\* the lines B and E left as they are by the loop "for(j=i-1;0<j;j--)"
Improve_Skipped(GLZ, i, j) == GLZ

RECURSIVE Improve(_, _, _)
\* the loop "for(j=i-1;0<j;j--)" of GL_W_to_GLZ on lines B=GLZ[i], E=GLZ[0]
Improve(GLZ, i, j) ==
    IF j < 1 THEN GLZ
    ELSE LET Y  == GLZ[j]
             rB == GL_RoundQ(GLZ[i][j], Y[j])
             rE == GL_RoundQ(GLZ[0][j], Y[j])
             B1 == [k \in DOMAIN GLZ[i] |->
                      IF k <= j THEN GLZ[i][k] - rB * Y[k] ELSE GLZ[i][k]]
             E1 == [k \in DOMAIN GLZ[0] |->
                      IF k <= j THEN GLZ[0][k] - rE * Y[k] ELSE GLZ[0][k]]
         IN  Improve([GLZ EXCEPT ![i] = B1, ![0] = E1], i, j - 1)

RECURSIVE WLoop(_, _, _, _, _)
\* the loop "for(i=2;i<d;i++)" of GL_W_to_GLZ
WLoop(W, d, i, Gc, GLZ) ==
    IF i >= d THEN [g |-> Gc, GLZ |-> GLZ]
    ELSE LET e  == GL_Egcd(Gc, W[i])
             G1 == CDiv(W[i], e.g)
             B  == [j \in Idx(d) |->
                      IF j = i THEN CDiv(Gc, e.g)
                      ELSE IF j < i THEN -GLZ[0][j] * G1 ELSE GLZ[i][j]]
             E  == [j \in Idx(d) |->
                      IF j < i THEN GLZ[0][j] * e.a
                      ELSE IF j = i THEN e.b ELSE GLZ[0][j]]
             M  == [GLZ EXCEPT ![i] = B, ![0] = E]
         IN  WLoop(W, d, i + 1, e.g, Improve(M, i, i - 1))

\* GL_W_to_GLZ with "B[0]=-W[1]/G" lacking the division by G
GL_W_to_GLZ_Undivided(W, d) ==
    LET e  == GL_Egcd(W[0], W[1])
        M0 == [i \in Idx(d) |-> [j \in Idx(d) |->
                 IF i = 0 THEN (IF j = 0 THEN e.a ELSE IF j = 1 THEN e.b ELSE 0)
                 ELSE IF i = 1
                      THEN (IF j = 0 THEN -W[1]
                            ELSE IF j = 1 THEN CDiv(W[0], e.g) ELSE 0)
                      ELSE 0]]
    IN  WLoop(W, d, 2, e.g, M0)

\* GL_W_to_GLZ(W,d,GLZ): the returned G and the d x d matrix left in GLZ.
\* Line 0 beyond column 1 is written by the loop before it is read.
GL_W_to_GLZ(W, d) ==
    LET e  == GL_Egcd(W[0], W[1])
        M0 == [i \in Idx(d) |-> [j \in Idx(d) |->
                 IF i = 0 THEN (IF j = 0 THEN e.a ELSE IF j = 1 THEN e.b ELSE 0)
                 ELSE IF i = 1
                      THEN (IF j = 0 THEN -CDiv(W[1], e.g)
                            ELSE IF j = 1 THEN CDiv(W[0], e.g) ELSE 0)
                      ELSE 0]]
    IN  WLoop(W, d, 2, e.g, M0)

-----------------------------------------------------------------------------
(* GLZ_Make_Trian_NF                                                       *)

\* NF[i][c] += G[i][j]*X[j][c] for all i, j: column c of NF after the update
AddColumn(Xm, Tm, NFm, d, c) ==
    [i \in Idx(d) |->
        [NFm[i] EXCEPT ![c] = @ + SumF([j \in Idx(d) |-> Tm[i][j] * Xm[j][c]],
                                       0, d - 1)]]

\* the lines i, from <= i < d (ascending), with NF[i][c] != 0: the array p[]
NonZeroLines(NFm, d, from, c) ==
    SelectSeq([k \in 1 .. (d - from) |-> from + k - 1],
              LAMBDA i : NFm[i][c] # 0)

RECURSIVE GLZ_FindColumn(_, _, _, _, _, _, _)
\* "while(N==0)": advance C to the next column with a non-zero entry in the
\* lines L..n-1, filling in NF on the way.  The loop has no test of C
\* against *nv: oob reports that it ran past the last column of X.
GLZ_FindColumn(Xm, Gm, NFm, d, v, Lc, Cc) ==
    LET C1 == Cc + 1
    IN  IF C1 >= v THEN [oob |-> TRUE, C |-> C1, NF |-> NFm]
        ELSE LET NF1 == AddColumn(Xm, Gm, NFm, d, C1)
             IN  IF Len(NonZeroLines(NF1, d, Lc, C1)) > 0
                 THEN [oob |-> FALSE, C |-> C1, NF |-> NF1]
                 ELSE GLZ_FindColumn(Xm, Gm, NF1, d, v, Lc, C1)

\* g and _G[][] without the change of sign for g < 0
PivotCombination_Unsigned(W, N) ==
    IF N = 1 THEN [g |-> W[0], GLZ |-> Identity(1)] ELSE GL_W_to_GLZ(W, N)

\* g and _G[][] as set up by
\* "if(N==1) {g=W[0]; _G[0][0]=1;} else g=GL_W_to_GLZ(W,N,_G);" and
\* "if(g<0) { g *= -1; for(i=0;i<N;i++)_G[0][i] *= -1; }"
PivotCombination(W, N) ==
    With(IF N = 1 THEN [g |-> W[0], GLZ |-> Identity(1)]
         ELSE GL_W_to_GLZ(W, N), LAMBDA r :
        IF r.g < 0
        THEN [g |-> -r.g,
              GLZ |-> [r.GLZ EXCEPT ![0] = [k \in Idx(N) |-> -r.GLZ[0][k]]]]
        ELSE r)

\* G after "G[p[j]][i] = sum_k _G[j][k]*Cp[k]" for every column i
ApplyCombination(Gm, d, p, N, GLZ) ==
    [r \in Idx(d) |->
        IF \E j \in Idx(N) : p[j] = r
        THEN LET j == CHOOSE j \in Idx(N) : p[j] = r
             IN  [i \in Idx(d) |->
                    SumF([k \in Idx(N) |-> GLZ[j][k] * Gm[p[k]][i]], 0, N - 1)]
        ELSE Gm[r]]

\* the swap left out
SwapLines_Skipped(Gm, a, b) == Gm

\* "swap lines G[L] <-> G[p[0]]"
SwapLines(Gm, a, b) == [Gm EXCEPT ![a] = Gm[b], ![b] = Gm[a]]

\* the quotient of C without the correction "R-=1"
FloorQuot_Truncated(a, b) == CDiv(a, b)

\* R of "make upper diag minimal nonneg.": the floor of N_iC / N_LC
FloorQuot(a, b) ==
    LET R == CDiv(a, b) IN IF a - R * b < 0 THEN R - 1 ELSE R

\* the lines above L left as they are
ReduceAbove_Skipped(NFm, Tm, d, Lc, c) == [NF |-> NFm, T |-> Tm]

\* "for(i=0;i<L;i++)": reduce the lines above L in column c modulo NF[L][c]
ReduceAbove(NFm, Tm, d, Lc, c) ==
    LET R == [i \in Idx(d) |->
                IF i < Lc THEN FloorQuot(NFm[i][c], NFm[Lc][c]) ELSE 0]
    IN  [NF |-> [i \in Idx(d) |->
                   [NFm[i] EXCEPT ![c] = @ - R[i] * NFm[Lc][c]]],
         T  |-> [i \in Idx(d) |->
                   [j \in Idx(d) |-> Tm[i][j] - R[i] * Tm[Lc][j]]]]

\* One pass of "for(L=0;L<*n;L++)": the pivot of line L
GLZ_PivotStep(Xm, Gm, NFm, d, v, Lc, Cc) ==
    With(GLZ_FindColumn(Xm, Gm, NFm, d, v, Lc, Cc), LAMBDA f :
        IF f.oob THEN [oob |-> TRUE, C |-> f.C, NF |-> f.NF, G |-> Gm]
        ELSE
        LET ps  == NonZeroLines(f.NF, d, Lc, f.C)
            N   == Len(ps)
            p   == [k \in Idx(N) |-> ps[k + 1]]
            W   == [k \in Idx(N) |-> f.NF[p[k]][f.C]]
        IN  With(PivotCombination(W, N), LAMBDA cmb :
        LET NF1 == [i \in Idx(d) |->
                      IF i = Lc THEN [f.NF[i] EXCEPT ![f.C] = cmb.g]
                      ELSE IF i > Lc THEN [f.NF[i] EXCEPT ![f.C] = 0]
                      ELSE f.NF[i]]
            G1  == ApplyCombination(Gm, d, p, N, cmb.GLZ)
            G2  == IF Lc # p[0] THEN SwapLines(G1, Lc, p[0]) ELSE G1
        IN  With(ReduceAbove(NF1, G2, d, Lc, f.C), LAMBDA red :
                [oob |-> FALSE, C |-> f.C, NF |-> red.NF, G |-> red.T])))

RECURSIVE RestColumns(_, _, _, _, _, _)
\* "while(++C<*nv) ... NF[i][C]+=G[i][j]*X[j][C]"
RestColumns(Xm, Tm, NFm, d, v, Cc) ==
    IF Cc + 1 >= v THEN NFm
    ELSE RestColumns(Xm, Tm, AddColumn(Xm, Tm, NFm, d, Cc + 1), d, v, Cc + 1)

\* largest |entry| GLZ_Make_Trian_NF and SL2Z_Make_Poly_NF accept in a result
\* (the value of the branch POLY_Dmax < 5)
NFX_Limit == 903

\* "for(i..)for(j..) X[i][j]=NF[i][j];" without the check against NFX_Limit
LimitScan_Unchecked(NFm, Xm, d, v, k) == [ret |-> 1, X |-> NFm]

RECURSIVE LimitScan(_, _, _, _, _)
\* "for(i..)for(j..) { g=|NF[i][j]|; if(g>NFX_Limit) return 0; else
\* X[i][j]=NF[i][j]; }": position k = i * v + j of the line-by-line scan
LimitScan(NFm, Xm, d, v, k) ==
    IF k >= d * v THEN [ret |-> 1, X |-> Xm]
    ELSE LET i == k \div v
             j == k % v
         IN  IF Abs(NFm[i][j]) > NFX_Limit THEN [ret |-> 0, X |-> Xm]
             ELSE LimitScan(NFm, [Xm EXCEPT ![i][j] = NFm[i][j]], d, v, k + 1)

RECURSIVE GLZ_Pivots(_, _, _, _, _, _, _)
\* the loop "for(L=0;L<*n;L++)" run from line Lc on
GLZ_Pivots(Xm, Gm, NFm, d, v, Lc, Cc) ==
    IF Lc >= d THEN [oob |-> FALSE, C |-> Cc, NF |-> NFm, G |-> Gm]
    ELSE With(GLZ_PivotStep(Xm, Gm, NFm, d, v, Lc, Cc), LAMBDA r :
             IF r.oob THEN r
             ELSE GLZ_Pivots(Xm, r.G, r.NF, d, v, Lc + 1, r.C))

\* GLZ_Make_Trian_NF(X,n,nv,G) as one call: the value returned, X and G on
\* return; oob when the pivot search left the columns of X
GLZ_Make_Trian_NF(Xm, d, v) ==
    With(GLZ_Pivots(Xm, Identity(d), Zero(d, v), d, v, 0, -1), LAMBDA r :
        IF r.oob THEN [oob |-> TRUE, ret |-> -1, X |-> Xm, G |-> r.G]
        ELSE With(LimitScan(RestColumns(Xm, r.G, r.NF, d, v, r.C),
                            Xm, d, v, 0), LAMBDA s :
                 [oob |-> FALSE, ret |-> s.ret, X |-> s.X, G |-> r.G]))

-----------------------------------------------------------------------------
(* Inputs of the reductions                                                *)

RECURSIVE BoundedVecs(_, _)
\* the integer sequences of length k with |s[1]| + ... + |s[k]| <= b
BoundedVecs(k, b) ==
    IF k = 0 THEN {<< >>}
    ELSE UNION {{<<x>> \o s : s \in BoundedVecs(k - 1, b - Abs(x))} :
                x \in (-b) .. b}

\* the d x v matrix whose lines are the consecutive pieces of s
MatrixOf(s, d, v) == [i \in Idx(d) |-> [j \in Idx(v) |-> s[i * v + j + 1]]]

SmallMatrices(d, v) == [Idx(d) -> [Idx(v) -> (-MaxEntry) .. MaxEntry]]

\* matrices with one column scaled beyond the limit of the result
BigMatrices(d, v) ==
    {[i \in Idx(d) |-> [j \in Idx(v) |->
         IF j = c THEN (NFX_Limit + 1) * M[i][j] ELSE M[i][j]]] :
     M \in {MatrixOf(s, d, v) : s \in BoundedVecs(d * v, MaxBigNorm)},
     c \in Idx(v)}

Shapes == {dv \in (1 .. MaxDim) \X (1 .. MaxCols) : dv[1] <= dv[2]}

\* the matrices a caller hands to a reduction, with *n and *nv
ReductionInput ==
    \E dv \in Shapes :
        /\ n = dv[1]
        /\ nv = dv[2]
        /\ X \in SmallMatrices(dv[1], dv[2]) \cup BigMatrices(dv[1], dv[2])

-----------------------------------------------------------------------------
(* GLZ_Make_Trian_NF, one action per loop pass                             *)

\* GLZ_Make_Trian_NF entered: "init G" done and NF cleared
InitGLZ ==
    /\ ReductionInput
    /\ VPMIdle
    /\ PolyIdle
    /\ CallIdle
    /\ Xin = X
    /\ G = Identity(n)
    /\ NF = Zero(n, nv)
    /\ S = << >>
    /\ C = -1
    /\ L = 0
    /\ ret = -1
    /\ pc = "pivot"

\* one pass of "for(L=0;L<*n;L++)"
GLZ_Pivot ==
    /\ pc = "pivot"
    /\ L < n
    /\ \E r \in {GLZ_PivotStep(X, G, NF, n, nv, L, C)} :
           /\ NF' = r.NF
           /\ G' = r.G
           /\ C' = r.C
           /\ L' = IF r.oob THEN L ELSE L + 1
           /\ pc' = IF r.oob THEN "oob" ELSE "pivot"
    /\ UNCHANGED <<X, Xin, n, nv, S, ret, vpmVars, polyVars, callVars>>

\* after the last pivot: G applied to the columns right of it, the check
\* against NFX_Limit with the copy into X, and the return
GLZ_Return ==
    /\ pc = "pivot"
    /\ L >= n
    /\ \E NF1 \in {RestColumns(X, G, NF, n, nv, C)} :
         \E s \in {LimitScan(NF1, X, n, nv, 0)} :
           /\ NF' = NF1
           /\ X' = s.X
           /\ ret' = s.ret
    /\ C' = nv
    /\ pc' = "done"
    /\ UNCHANGED <<Xin, n, nv, G, S, L, vpmVars, polyVars, callVars>>

NextGLZ == GLZ_Pivot \/ GLZ_Return

SpecGLZ == InitGLZ /\ [][NextGLZ]_vars

-----------------------------------------------------------------------------
(* SL2Z_Make_Poly_NF                                                       *)

\* SL_Egcd(A0,A1,&Vout0,&Vout1): the returned value and the two outputs
SL_Egcd(A0, A1) ==
    LET r == EgcdLoop(A0, A1, 1, 0)
    IN  [g |-> r[1], a |-> r[2], b |-> CDiv(r[1] - A0 * r[2], A1)]

\* SL_swap applied to the lines a and b of a matrix
SL_SwapLines(M, a, b) == [M EXCEPT ![a] = M[b], ![b] = M[a]]

RECURSIVE SL_Eliminate(_, _, _, _, _, _, _)
\* "while(++i<*n) if(NF[i][C])": clear column c below line Lc, counting in
\* N the non-zero entries met
SL_Eliminate(NFm, Sm, d, Lc, c, i, N) ==
    IF i >= d THEN [NF |-> NFm, S |-> Sm, N |-> N]
    ELSE IF NFm[i][c] = 0 THEN SL_Eliminate(NFm, Sm, d, Lc, c, i + 1, N)
    ELSE IF NFm[Lc][c] # 0
    THEN LET e  == SL_Egcd(NFm[Lc][c], NFm[i][c])
             Si == [j \in Idx(d) |->
                      CDiv(NFm[Lc][c], e.g) * Sm[i][j]
                      - CDiv(NFm[i][c], e.g) * Sm[Lc][j]]
             SL == [j \in Idx(d) |-> e.a * Sm[Lc][j] + e.b * Sm[i][j]]
         IN  SL_Eliminate([NFm EXCEPT ![Lc][c] = e.g, ![i][c] = 0],
                          [Sm EXCEPT ![i] = Si, ![Lc] = SL],
                          d, Lc, c, i + 1, N + 1)
    ELSE SL_Eliminate([NFm EXCEPT ![Lc][c] = NFm[i][c], ![i][c] = NFm[Lc][c]],
                      SL_SwapLines(Sm, Lc, i), d, Lc, c, i + 1, N + 1)

\* "if(NF[L][C]<0) { NF[L][C]*=-1; for(j..) S[L][j]*=-1; }"
SL_Sign(NFm, Sm, d, Lc, c) ==
    IF NFm[Lc][c] < 0
    THEN [NF |-> [NFm EXCEPT ![Lc][c] = -@],
          S  |-> [Sm EXCEPT ![Lc] = [j \in Idx(d) |-> -Sm[Lc][j]]]]
    ELSE [NF |-> NFm, S |-> Sm]

RECURSIVE SL_PivotStep(_, _, _, _, _, _, _)
\* one pass of "for(L=0;L<*n-1;L++)": the loop "while(!N)" over the columns.
\* The loop has no test of C against *nv: oob reports that it ran past the
\* last column of X.
SL_PivotStep(Xm, Sm, NFm, d, v, Lc, Cc) ==
    LET C1 == Cc + 1
    IN  IF C1 >= v THEN [oob |-> TRUE, C |-> C1, NF |-> NFm, S |-> Sm]
        ELSE LET NF1 == AddColumn(Xm, Sm, NFm, d, C1)
                 N0  == IF NF1[Lc][C1] # 0 THEN 1 ELSE 0
                 el  == SL_Eliminate(NF1, Sm, d, Lc, C1, Lc + 1, N0)
                 sg  == SL_Sign(el.NF, el.S, d, Lc, C1)
             IN  IF el.N # 0
                 THEN LET red == ReduceAbove(sg.NF, sg.S, d, Lc, C1)
                      IN  [oob |-> FALSE, C |-> C1, NF |-> red.NF, S |-> red.T]
                 ELSE SL_PivotStep(Xm, sg.S, sg.NF, d, v, Lc, C1)

RECURSIVE SL_Rest(_, _, _, _, _, _, _)
\* "while(++C<*nv)": S applied to the remaining columns; the first of them
\* with a non-zero entry in line L = *n-1 gets that entry made positive and
\* the entries above it reduced, and sets L=0
SL_Rest(Xm, Sm, NFm, d, v, Lc, Cc) ==
    LET C1 == Cc + 1
    IN  IF C1 >= v THEN [NF |-> NFm, S |-> Sm, L |-> Lc]
        ELSE LET NF1 == AddColumn(Xm, Sm, NFm, d, C1)
             IN  IF Lc # 0 /\ NF1[Lc][C1] # 0
                 THEN LET sg  == IF NF1[Lc][C1] < 0
                                 THEN [NF |-> [NF1 EXCEPT ![d - 1][C1] = -@],
                                       S  |-> [Sm EXCEPT ![Lc] =
                                                 [j \in Idx(d) |-> -Sm[Lc][j]]]]
                                 ELSE [NF |-> NF1, S |-> Sm]
                          red == ReduceAbove(sg.NF, sg.S, d, Lc, C1)
                      IN  SL_Rest(Xm, red.T, red.NF, d, v, 0, C1)
                 ELSE SL_Rest(Xm, Sm, NF1, d, v, Lc, C1)

RECURSIVE SL_LimitScan(_, _, _, _, _)
\* "if( labs(X[i][j]=NF[i][j]) > NFX_Limit) return 0;" line by line
SL_LimitScan(NFm, Xm, d, v, k) ==
    IF k >= d * v THEN [ret |-> 1, X |-> Xm]
    ELSE LET i  == k \div v
             j  == k % v
             X1 == [Xm EXCEPT ![i][j] = NFm[i][j]]
         IN  IF Abs(NFm[i][j]) > NFX_Limit THEN [ret |-> 0, X |-> X1]
             ELSE SL_LimitScan(NFm, X1, d, v, k + 1)

\* SL2Z_Make_Poly_NF entered: "init S" done and NF cleared
InitSL ==
    /\ ReductionInput
    /\ VPMIdle
    /\ PolyIdle
    /\ CallIdle
    /\ Xin = X
    /\ S = Identity(n)
    /\ NF = Zero(n, nv)
    /\ G = << >>
    /\ C = -1
    /\ L = 0
    /\ ret = -1
    /\ pc = "pivot"

\* one pass of "for(L=0;L<*n-1;L++)"
SL_Pivot ==
    /\ pc = "pivot"
    /\ L < n - 1
    /\ \E r \in {SL_PivotStep(X, S, NF, n, nv, L, C)} :
           /\ NF' = r.NF
           /\ S' = r.S
           /\ C' = r.C
           /\ L' = IF r.oob THEN L ELSE L + 1
           /\ pc' = IF r.oob THEN "oob" ELSE "pivot"
    /\ UNCHANGED <<X, Xin, n, nv, G, ret, vpmVars, polyVars, callVars>>

\* after the pivot loop: the remaining columns, the check against NFX_Limit
\* with the copy into X, and the return
SL_Return ==
    /\ pc = "pivot"
    /\ L >= n - 1
    /\ \E r \in {SL_Rest(X, S, NF, n, nv, L, C)} :
         \E s \in {SL_LimitScan(r.NF, X, n, nv, 0)} :
           /\ NF' = r.NF
           /\ S' = r.S
           /\ L' = r.L
           /\ X' = s.X
           /\ ret' = s.ret
    /\ C' = nv
    /\ pc' = "done"
    /\ UNCHANGED <<Xin, n, nv, G, vpmVars, polyVars, callVars>>

NextSL == SL_Pivot \/ SL_Return

SpecSL == InitSL /\ [][NextSL]_vars

RECURSIVE SL_Pivots(_, _, _, _, _, _, _)
\* the loop "for(L=0;L<*n-1;L++)" run from line Lc on
SL_Pivots(Xm, Sm, NFm, d, v, Lc, Cc) ==
    IF Lc >= d - 1 THEN [oob |-> FALSE, C |-> Cc, NF |-> NFm, S |-> Sm]
    ELSE LET r == SL_PivotStep(Xm, Sm, NFm, d, v, Lc, Cc)
         IN  IF r.oob THEN r
             ELSE SL_Pivots(Xm, r.S, r.NF, d, v, Lc + 1, r.C)

\* SL2Z_Make_Poly_NF(X,n,nv,S) as one call
SL2Z_Make_Poly_NF(Xm, d, v) ==
    LET r == SL_Pivots(Xm, Identity(d), Zero(d, v), d, v, 0, -1)
    IN  IF r.oob THEN [oob |-> TRUE, ret |-> -1, X |-> Xm, S |-> r.S]
        ELSE LET q == SL_Rest(Xm, r.S, r.NF, d, v, d - 1, r.C)
                 s == SL_LimitScan(q.NF, Xm, d, v, 0)
             IN  [oob |-> FALSE, ret |-> s.ret, X |-> s.X, S |-> q.S]

-----------------------------------------------------------------------------
(* Make_VPM_NF: Aux_vNF_Init                                               *)

\* the permutations of 0..k-1
Perms(k) == {p \in [Idx(k) -> Idx(k)] : \A i \in Idx(k) : \A j \in Idx(k) :
                                            p[i] = p[j] => i = j}

\* swap(&F[a],&F[b])
Swap(F, a, b) == [F EXCEPT ![a] = F[b], ![b] = F[a]]

\* F with F[k] = val, the array growing by the entry k if need be
Put(F, k, val) == [i \in (DOMAIN F) \cup {k} |-> IF i = k THEN val ELSE F[i]]

\* the entries 0..k-1 of the array F
Keep(F, k) == [i \in Idx(k) |-> F[i]]

\* the column order left as it is, no entry being swapped to position c
MaxToFront_Unmoved(y, Cp, c, j, s) == Cp

RECURSIVE MaxToFront(_, _, _, _, _)
\* "while(++j<=s) if(y[C[c]]<y[C[j]]) swap(&C[c],&C[j]);" entered with j-1
MaxToFront(y, Cp, c, j, s) ==
    IF j > s THEN Cp
    ELSE MaxToFront(y, IF y[Cp[c]] < y[Cp[j]] THEN Swap(Cp, c, j) ELSE Cp,
                    c, j + 1, s)

\* q->C left in the order of the input
ExchangeSort_Unsorted(y, Cp, i, v) == Cp

RECURSIVE ExchangeSort(_, _, _, _)
\* the two loops of Aux_vNF_Init that order q->C by non-increasing b
ExchangeSort(y, Cp, i, v) ==
    IF i >= v THEN Cp
    ELSE ExchangeSort(y, MaxToFront(y, Cp, i, i + 1, v - 1), i + 1, v)

RECURSIVE MaxPosition(_, _, _, _, _)
\* "for(j=i+1;j<nv;j++) if(y[p->C[m]]<y[p->C[j]]) m=j;"
MaxPosition(y, Cp, m, j, v) ==
    IF j >= v THEN m
    ELSE MaxPosition(y, Cp, IF y[Cp[m]] < y[Cp[j]] THEN j ELSE m, j + 1, v)

\* p->C left as it is
SelectMax_Unmoved(y, Cp, i, v) == Cp

\* p->C after the maximum of the positions i.. is swapped to position i
SelectMax(y, Cp, i, v) ==
    LET m == MaxPosition(y, Cp, i, i + 1, v)
    IN  IF m > i THEN Swap(Cp, i, m) ELSE Cp

RECURSIVE InitCompare(_, _, _, _, _, _)
\* "for(i=1;i<nv;i++)" of Aux_vNF_Init: p->C ordered by y and compared with
\* the best line b in the order bC; d < 0 ends the loop at once
InitCompare(y, Cp, b, bC, d, i) ==
    LET v == Cardinality(DOMAIN Cp)
    IN  IF i >= v THEN [C |-> Cp, d |-> d]
        ELSE LET C1 == SelectMax(y, Cp, i, v)
                 d1 == IF d = 0 THEN y[C1[i]] - b[bC[i]] ELSE d
             IN  IF d1 < 0 THEN [C |-> C1, d |-> d1]
                 ELSE InitCompare(y, C1, b, bC, d1, i + 1)

\* S with every column c..s-1 in a block of its own
ScanEqual_Split(y, Cp, Sf, c, s) ==
    [i \in (DOMAIN Sf) \cup (c .. (s - 1)) |->
        IF c <= i /\ i < s THEN i ELSE Sf[i]]

RECURSIVE ScanEqual(_, _, _, _, _)
\* "if(y[C[c]]==y[C[c-1]]) ++S[ S[c]=S[c-1] ]; else S[c]=c;" for c..s-1
ScanEqual(y, Cp, Sf, c, s) ==
    IF c >= s THEN Sf
    ELSE IF y[Cp[c]] = y[Cp[c - 1]]
         THEN LET b  == Sf[c - 1]
                  S1 == Put(Sf, c, b)
              IN  ScanEqual(y, Cp, [S1 EXCEPT ![b] = @ + 1], c + 1, s)
         ELSE ScanEqual(y, Cp, Put(Sf, c, c), c + 1, s)

\* the lines 1..nf-1 not tried as the first line
InitLines_FirstOnly(x, nf, v, cl, b, nn) == cl

RECURSIVE InitLines(_, _, _, _, _, _)
\* "for(nn=1;nn<_X->nf;nn++)" of Aux_vNF_Init: cl[0] is *q, b the best line
InitLines(x, nf, v, cl, b, nn) ==
    IF nn >= nf THEN cl
    ELSE LET P  == [L |-> Unpermuted(nf), C |-> Unpermuted(v)]
             y  == x[nn]
             C0 == SelectMax(y, P.C, 0, v)
             d0 == y[C0[0]] - b[cl[0].C[0]]
         IN  IF d0 < 0 THEN InitLines(x, nf, v, cl, b, nn + 1)
             ELSE LET r == InitCompare(y, C0, b, cl[0].C, d0, 1)
                      p == [L |-> Swap(P.L, 0, nn), C |-> r.C]
                  IN  IF r.d < 0 THEN InitLines(x, nf, v, cl, b, nn + 1)
                      ELSE IF r.d = 0
                      THEN InitLines(x, nf, v,
                                     Put(cl, Cardinality(DOMAIN cl), p),
                                     b, nn + 1)
                      ELSE InitLines(x, nf, v, (0 :> p), y, nn + 1)

\* Aux_vNF_Init(_X,x,CL,S,_ns) entered with *_ns = 1: CL, *_ns and S on return
Aux_vNF_Init(x, nf, v) ==
    LET q  == [L |-> Unpermuted(nf),
               C |-> ExchangeSort(x[0], Unpermuted(v), 0, v)]
        cl == InitLines(x, nf, v, (0 :> q), x[0], 1)
    IN  [CL |-> cl,
         ns |-> Cardinality(DOMAIN cl),
         S  |-> ScanEqual(x[cl[0].L[0]], cl[0].C, (0 :> 0), 1, v)]

-----------------------------------------------------------------------------
(* Make_VPM_NF: Aux_vNF_Line                                               *)

RECURSIVE LineChoice(_, _, _, _, _, _, _)
\* the first inner loop "while(++L<_X->nf)" of Aux_vNF_Line for the candidate
\* cln = CL[n]: every line Lc still free is tried in position l and compared
\* with the record r[0] in the first block of columns.  w holds nP, np, r,
\* cf, ccf and *_ns.
LineChoice(x, l, nf, Sf, cln, k, w) ==
    LET Lc == w.L
    IN
    IF Lc >= nf THEN w
    ELSE LET y     == x[w.nP[w.np].L[Lc]]
             C1    == MaxToFront(y, w.nP[w.np].C, 0, 1, Sf[0])
             cur   == [w.nP[w.np] EXCEPT !.C = C1]
             moved == [cur EXCEPT !.L = Swap(cur.L, l, Lc)]
             taken == [w EXCEPT !.nP = Put(Put(w.nP, w.np, moved), w.np + 1,
                                                cln),
                                !.np = @ + 1, !.L = Lc + 1]
         IN  IF w.ccf
             THEN LET d == y[C1[0]] - w.r[0]
                  IN  IF d < 0
                      THEN LineChoice(x, l, nf, Sf, cln, k,
                               [w EXCEPT !.nP = Put(w.nP, w.np, cur),
                                         !.L = Lc + 1])
                      ELSE IF d # 0
                      THEN LineChoice(x, l, nf, Sf, cln, k,
                               [w EXCEPT !.r = Put(w.r, 0, y[C1[0]]),
                                         !.cf = FALSE,
                                         !.nP = (0 :> moved) @@ (1 :> cln),
                                         !.np = 1, !.ns = k + 1,
                                         !.L = Lc + 1])
                      ELSE LineChoice(x, l, nf, Sf, cln, k, taken)
             ELSE LineChoice(x, l, nf, Sf, cln, k,
                      [taken EXCEPT !.r = Put(taken.r, 0, y[C1[0]]),
                                    !.ccf = TRUE])

\* the choices nP[] left as they are in the column c, none being compared
ColumnPass_Kept(x, l, k, c, s, w) == w

RECURSIVE ColumnPass(_, _, _, _, _, _)
\* "while(L--)" of the second loop of Aux_vNF_Line for the column c whose
\* block ends at s: the choices nP[Lc], Lc descending, are compared in
\* position c with the record r[c]
ColumnPass(x, l, k, c, s, w) ==
    LET Lc == w.L
    IN
    IF Lc < 0 THEN w
    ELSE LET y   == x[w.nP[Lc].L[l]]
             C1  == MaxToFront(y, w.nP[Lc].C, c, c + 1, s)
             nP1 == [w.nP EXCEPT ![Lc].C = C1]
         IN  IF w.ccf
             THEN LET d == y[C1[c]] - w.r[c]
                  IN  IF d < 0
                      THEN ColumnPass(x, l, k, c, s,
                               [w EXCEPT !.np = @ - 1,
                                         !.nP = IF w.np - 1 > Lc
                                                THEN [nP1 EXCEPT
                                                        ![Lc] = nP1[w.np - 1]]
                                                ELSE nP1,
                                         !.L = Lc - 1])
                      ELSE IF d # 0
                      THEN ColumnPass(x, l, k, c, s,
                               [w EXCEPT !.r = Put(w.r, c, y[C1[c]]),
                                         !.cf = FALSE, !.np = Lc + 1,
                                         !.ns = k + 1, !.nP = nP1,
                                         !.L = Lc - 1])
                      ELSE ColumnPass(x, l, k, c, s,
                               [w EXCEPT !.nP = nP1, !.L = Lc - 1])
             ELSE ColumnPass(x, l, k, c, s,
                      [w EXCEPT !.r = Put(w.r, c, y[C1[c]]), !.ccf = TRUE,
                                !.nP = nP1, !.L = Lc - 1])

RECURSIVE ColumnLoop(_, _, _, _, _, _, _)
\* the second loop "while(++c<_X->nv)" of Aux_vNF_Line
ColumnLoop(x, l, v, Sf, k, c, w) ==
    IF c >= v THEN w
    ELSE LET s == IF Sf[c] < c THEN Sf[Sf[c]] ELSE Sf[c]
         IN  ColumnLoop(x, l, v, Sf, k, c + 1,
                 ColumnPass(x, l, k, c, s,
                            [w EXCEPT !.L = w.np - 1, !.ccf = w.cf]))

\* a candidate list that keeps its entry k although that entry was processed
Compact_Kept(cl, k, ns1) == cl

\* "if(--(*_ns) > n) CL[n]=CL[*_ns];": the processed candidate CL[k] gives
\* its place to the last one, ns1 being the decremented *_ns
Compact(cl, k, ns1) == IF ns1 > k THEN [cl EXCEPT ![k] = cl[ns1]] ELSE cl

\* a count of candidates that is never taken to be too large
OverCeiling_Never(cf) == FALSE

\* "if(SYM_Nmax < (cf=(*_ns+np)))": cf candidates are more than CL may hold
OverCeiling(cf) == SYM_Nmax < cf

RECURSIVE CandidateLoop(_, _, _, _, _, _, _)
\* the loop "while(n--)" of Aux_vNF_Line over the candidates CL[k], k
\* descending; u holds CL, *_ns, r, cf and whether exit(0) was called
CandidateLoop(x, l, nf, v, Sf, k, u) ==
    IF k < 0 \/ u.exit THEN u
    ELSE LET w0  == [nP |-> (0 :> u.CL[k]), np |-> 0, r |-> u.r,
                     cf |-> u.cf, ccf |-> u.cf, ns |-> u.ns, L |-> l]
             w1  == LineChoice(x, l, nf, Sf, u.CL[k], k, w0)
             w2  == ColumnLoop(x, l, v, Sf, k, 1, w1)
             ns1 == w2.ns - 1
             cl1 == Compact(u.CL, k, ns1)
         IN  IF OverCeiling(ns1 + w2.np)
             THEN [u EXCEPT !.exit = TRUE]
             ELSE CandidateLoop(x, l, nf, v, Sf, k - 1,
                      [CL   |-> [i \in Idx(ns1 + w2.np) |->
                                    IF i < ns1 THEN cl1[i]
                                    ELSE w2.nP[i - ns1]],
                       ns   |-> ns1 + w2.np,
                       r    |-> w2.r,
                       cf   |-> TRUE,
                       exit |-> FALSE])

\* S left as it was before the line was fixed
RefineBlocks_Kept(y, Cp, Sf, c, v) == Sf

RECURSIVE RefineBlocks(_, _, _, _, _)
\* the closing loop "while(c<_X->nv)" of Aux_vNF_Line: every block of S is
\* split where the line y changes
RefineBlocks(y, Cp, Sf, c, v) ==
    IF c >= v THEN Sf
    ELSE LET s == Sf[c] + 1
         IN  RefineBlocks(y, Cp,
                          ScanEqual(y, Cp, [Sf EXCEPT ![c] = c], c + 1, s),
                          s, v)

\* Aux_vNF_Line(l,_X,x,CL,S,_ns): CL, *_ns and S on return, or exit
Aux_vNF_Line(l, x, nf, v, cl, Sf, nsv) ==
    LET u == CandidateLoop(x, l, nf, v, Sf, nsv - 1,
                 [CL |-> cl, ns |-> nsv, r |-> << >>, cf |-> FALSE,
                  exit |-> FALSE])
    IN  IF u.exit THEN [exit |-> TRUE, CL |-> cl, ns |-> nsv, S |-> Sf]
        ELSE [exit |-> FALSE, CL |-> u.CL, ns |-> u.ns,
              S |-> RefineBlocks(x[u.CL[0].L[l]], u.CL[0].C, Sf, 0, v)]

\* the matrix x with its lines and columns in the order of the input
Permuted_Unordered(x, nf, v, p) == x

\* the matrix x with its lines ordered by p.L and its columns by p.C
Permuted(x, nf, v, p) == [j \in Idx(nf) |-> [i \in Idx(v) |-> x[p.L[j]][p.C[i]]]]

RECURSIVE VPM_Lines(_, _, _, _, _)
\* "for(i=1;i<_X->nf-1;i++)Aux_vNF_Line(i,...)" of Make_VPM_NF from line i on
VPM_Lines(x, nf, v, i, a) ==
    IF i >= nf - 1 \/ a.exit THEN a
    ELSE VPM_Lines(x, nf, v, i + 1, Aux_vNF_Line(i, x, nf, v, a.CL, a.S, a.ns))

\* Make_VPM_NF(_V,_E,VPM,ns,CL,VPM_NF) for the pairing matrix x
Make_VPM_NF(x, nf, v) ==
    With(Aux_vNF_Init(x, nf, v), LAMBDA a0 :
    With(VPM_Lines(x, nf, v, 1, [exit |-> FALSE, CL |-> a0.CL,
                                 ns |-> a0.ns, S |-> a0.S]), LAMBDA a :
        [exit |-> a.exit, CL |-> a.CL, ns |-> a.ns,
         VPM_NF |-> IF a.exit THEN << >> ELSE Permuted(x, nf, v, a.CL[0])]))

-----------------------------------------------------------------------------
(* Init_rVM_VPM, New_pNF_Order                                             *)

\* Eval_Eq_on_V(E,V,n) of Global.h: the equation E = (a, c) evaluated on the
\* point V, that is a.V + c
Eval_Eq_on_V(E, V, k) == E.c + SumF([i \in Idx(k) |-> E.a[i] * V[i]], 0, k - 1)

X_Limit == 9999

VPM_Limit == 9999

\* TEST_rVM_VPM(d,v,f,X,x): TRUE iff a limit is exceeded and exit(0) called
TEST_rVM_VPM(d, v, f, Xm, x) ==
    \E i \in Idx(v) :
        \/ \E j \in Idx(d) : Abs(Xm[j][i]) > X_Limit
        \/ \E j \in Idx(f) : Abs(x[j][i]) > VPM_Limit

\* Init_rVM_VPM(_P,_V,_F,d,v,f,X,x) for the polytope P, whose vertices
\* _P->x[_V->v[i]] are P.x[i] and whose equations _F->e[j] are P.e[j]
Init_rVM_VPM(P) ==
    LET x  == [j \in Idx(P.ne) |-> [i \in Idx(P.nv) |->
                  Eval_Eq_on_V(P.e[j], P.x[i], P.n)]]
        Xm == [j \in Idx(P.n) |-> [i \in Idx(P.nv) |-> P.x[i][j]]]
    IN  [d |-> P.n, v |-> P.nv, f |-> P.ne, VM |-> Xm, VPM |-> x,
         ref  |-> IF \E j \in Idx(P.ne) : P.e[j].c # 1 THEN 0 ELSE 1,
         exit |-> TEST_rVM_VPM(P.n, P.nv, P.ne, Xm, x)]

\* maxP[i] of New_pNF_Order: the largest entry of column i, at least 0
ColumnMax(M, f, i) ==
    LET col == {M[j][i] : j \in Idx(f)} \cup {0}
    IN  CHOOSE a \in col : \A b \in col : b <= a

\* the column i taken as the next one whatever the keys
OrderMin_First(maxP, sumP, k, j, v) == k

RECURSIVE OrderMin(_, _, _, _, _)
\* "int n=i; for(j=i+1;j<*v;j++) ..." of New_pNF_Order: the column that
\* comes next, smallest maxP first and smallest sumP among equal maxP
OrderMin(maxP, sumP, k, j, v) ==
    IF j >= v THEN k
    ELSE IF maxP[j] < maxP[k] THEN OrderMin(maxP, sumP, j, j + 1, v)
    ELSE IF maxP[j] = maxP[k] /\ sumP[j] < sumP[k]
         THEN OrderMin(maxP, sumP, j, j + 1, v)
    ELSE OrderMin(maxP, sumP, k, j + 1, v)

RECURSIVE OrderLoop(_, _, _, _, _)
\* "for(i=0;i<*v-1;i++)" of New_pNF_Order: the permutation pi
OrderLoop(maxP, sumP, pi, i, v) ==
    IF i >= v - 1 THEN pi
    ELSE LET k == OrderMin(maxP, sumP, i, i + 1, v)
         IN  IF k # i
             THEN OrderLoop(Swap(maxP, i, k), Swap(sumP, i, k),
                            Swap(pi, i, k), i + 1, v)
             ELSE OrderLoop(maxP, sumP, pi, i + 1, v)

\* New_pNF_Order(v,f,CL,ns,VPM_NF): CL on return
New_pNF_Order(v, f, cl, nsv, M) ==
    LET maxP == [i \in Idx(v) |-> ColumnMax(M, f, i)]
        sumP == [i \in Idx(v) |-> SumF([j \in Idx(f) |-> M[j][i]], 0, f - 1)]
        pi   == OrderLoop(maxP, sumP, Unpermuted(v), 0, v)
    IN  [i \in Idx(nsv) |->
            [cl[i] EXCEPT !.C = [j \in Idx(v) |-> cl[i].C[pi[j]]]]]

-----------------------------------------------------------------------------
(* Aux_Make_Triang, Aux_pNF_from_vNF, Eval_Poly_NF, Make_Poly_NF           *)

\* Aux_Make_Poly_NF(X,n,nv) with TEST_GLZ_VS_SL = 0
Aux_Make_Poly_NF(Xm, d, v) == GLZ_Make_Trian_NF(Xm, d, v)

\* "X > Y", read line by line
Aux_XgtY_Poly_NF(Xm, Ym, d, v) ==
    \E i \in Idx(d) : \E j \in Idx(v) :
        /\ Xm[i][j] > Ym[i][j]
        /\ \A k \in Idx(d) : \A m \in Idx(v) :
               (k < i \/ (k = i /\ m < j)) => Xm[k][m] = Ym[k][m]

\* Aux_XltY_Poly_NF(X,Y,n,nv): "X < Y", read line by line
Aux_XltY_Poly_NF(Xm, Ym, d, v) ==
    \E i \in Idx(d) : \E j \in Idx(v) :
        /\ Xm[i][j] < Ym[i][j]
        /\ \A k \in Idx(d) : \A m \in Idx(v) :
               (k < i \/ (k = i /\ m < j)) => Xm[k][m] = Ym[k][m]

\* "X[i][j]=V[i][j]": the columns of V left in their order
Columns_InPlace(V, d, v, Cp) == V

\* "X[i][j]=V[i][CL[s].C[j]]": the columns of V in the order Cp
Columns(V, d, v, Cp) == [i \in Idx(d) |-> [j \in Idx(v) |-> V[i][Cp[j]]]]

\* "CL[k].s = val"
SetS(cl, k, val) ==
    [cl EXCEPT ![k] = [L |-> cl[k].L, C |-> cl[k].C, s |-> val]]

RECURSIVE ClearS(_, _, _)
\* "for(k=g;k<s;k++) CL[k].s=0;"
ClearS(cl, k, s) == IF k >= s THEN cl ELSE ClearS(SetS(cl, k, 0), k + 1, s)

RECURSIVE TriangLoop(_, _, _, _, _, _)
\* the loop "for(s=1;s<ns;s++)" of Aux_Make_Triang; w holds x, X, Y, g, ps,
\* *t, CL and how the program stopped if it did
TriangLoop(V, d, v, nsv, s, w) ==
    IF s >= nsv \/ w.stop # "" THEN w
    ELSE With(Aux_Make_Poly_NF(Columns(V, d, v, w.CL[s].C), d, v), LAMBDA r :
             IF r.oob THEN [w EXCEPT !.stop = "oob"]
             ELSE IF r.ret = 0 THEN [w EXCEPT !.stop = "exit"]
             ELSE LET old    == IF w.x = 1 THEN w.Y ELSE w.X
                      better == Aux_XltY_Poly_NF(r.X, old, d, v)
                      equal  == ~better /\ ~Aux_XltY_Poly_NF(old, r.X, d, v)
                      w1 == IF w.x = 1
                            THEN [w EXCEPT !.X = r.X,
                                           !.x = IF better THEN 0 ELSE 1]
                            ELSE [w EXCEPT !.Y = r.X,
                                           !.x = IF better THEN 1 ELSE 0]
                      w2 == IF w.t = 0 THEN w1
                            ELSE IF better
                            THEN [w1 EXCEPT
                                    !.CL = IF w.t < 0
                                           THEN SetS(ClearS(w1.CL, w.g, s), s, 1)
                                           ELSE @,
                                    !.t = IF w.t < 0 THEN -1 ELSE @,
                                    !.g = s, !.ps = 1]
                            ELSE IF equal
                            THEN [w1 EXCEPT
                                    !.CL = IF w.t < 0 THEN SetS(w1.CL, s, 1)
                                           ELSE @,
                                    !.t = IF w.t < 0 THEN @ - 1 ELSE @,
                                    !.ps = @ + 1]
                            ELSE w1
                  IN  TriangLoop(V, d, v, nsv, s + 1, w2))

RECURSIVE ZeroS(_, _, _)
\* "for(s=1;s<ns;s++)CL[s].s=0;"
ZeroS(cl, s, nsv) == IF s >= nsv THEN cl ELSE ZeroS(SetS(cl, s, 0), s + 1, nsv)

\* Aux_Make_Triang(CL,ns,V,n,nv,t): V, CL and *t on return, or how the
\* program stopped
Aux_Make_Triang(cl, nsv, V, d, v, t) ==
    LET stopped(why) == [stop |-> why, V |-> V, CL |-> cl, t |-> t]
        cl1 == ZeroS(IF t < 0 THEN SetS(cl, 0, 1) ELSE cl, 1, nsv)
    IN  With(Aux_Make_Poly_NF(Columns(V, d, v, cl[0].C), d, v), LAMBDA r :
        IF r.oob THEN stopped("oob")
        ELSE IF r.ret = 0 THEN stopped("exit")
        ELSE IF t < -1 THEN stopped("exit")
        ELSE With(TriangLoop(V, d, v, nsv, 1,
                      [x |-> 0, X |-> r.X, Y |-> << >>, g |-> 0,
                       ps |-> 1, t |-> t, CL |-> cl1, stop |-> ""]), LAMBDA w :
                 [stop |-> w.stop,
                  V    |-> IF w.stop # "" THEN V
                           ELSE IF w.x = 1 THEN w.Y ELSE w.X,
                  CL   |-> w.CL,
                  t    |-> w.t]))

\* Aux_pNF_from_vNF(CL,ns,v,d,VM,pNF,t)
Aux_pNF_from_vNF(cl, nsv, v, d, VM, t) == Aux_Make_Triang(cl, nsv, VM, d, v, t)

\* the candidates of a pairing matrix in the order of New_pNF_Order:
\* Make_VPM_NF followed by New_pNF_Order, as in Eval_Poly_NF and
\* Make_Poly_Sym_NF
OrderedCandidates(v, f, x) ==
    With(Make_VPM_NF(x, f, v), LAMBDA a :
        IF a.exit THEN [exit |-> TRUE, ns |-> a.ns, CL |-> a.CL]
        ELSE [exit |-> FALSE, ns |-> a.ns,
              CL |-> New_pNF_Order(v, f, a.CL, a.ns, a.VPM_NF)])

\* Eval_Poly_NF(d,v,f,VM,VPM,pNF,t) with t = 0: pNF on return, or how the
\* program stopped
Eval_Poly_NF(d, v, f, VM, x) ==
    With(OrderedCandidates(v, f, x), LAMBDA a :
        IF a.exit THEN [stop |-> "exit", pNF |-> << >>]
        ELSE With(Aux_pNF_from_vNF(a.CL, a.ns, v, d, VM, 0), LAMBDA b :
                 [stop |-> b.stop,
                  pNF  |-> IF b.stop # "" THEN << >> ELSE b.V]))

\* Make_Poly_NF(_P,_V,_F,pNF): the value returned and pNF, or how the
\* program stopped
Make_Poly_NF(P) ==
    With(Init_rVM_VPM(P), LAMBDA a :
        IF a.exit THEN [stop |-> "exit", ref |-> a.ref, pNF |-> << >>]
        ELSE With(Eval_Poly_NF(a.d, a.v, a.f, a.VM, a.VPM), LAMBDA b :
                 [stop |-> b.stop, ref |-> a.ref, pNF |-> b.pNF]))

-----------------------------------------------------------------------------
(* Make_Poly_Sym_NF                                                        *)

\* the candidates i with CL[i].s set
Flagged(cl, nsv) == {i \in Idx(nsv) : cl[i].s # 0}

\* the first candidate with s set, whatever t
FlaggedAt_First(cl, nsv, t) ==
    CHOOSE i \in Flagged(cl, nsv) : \A k \in Flagged(cl, nsv) : i <= k

\* the candidate whose permutation goes to V_perm[t]: the t-th one with s set
FlaggedAt(cl, nsv, t) ==
    CHOOSE i \in Flagged(cl, nsv) :
        Cardinality({k \in Flagged(cl, nsv) : k < i}) = t

\* "V_perm[t][j]=CL[i].C[j]", the order C not undone
SymPerm_Direct(Cp, Ci, v) == Ci

\* "for(j=0;j<*v;j++) V_perm[t][C[j]]=CL[i].C[j];"
SymPerm(Cp, Ci, v) ==
    [c \in Idx(v) |-> Ci[CHOOSE j \in Idx(v) : Cp[j] = c]]

\* Make_Poly_Sym_NF(_P,_V,_F,SymNum,V_perm,NF,traced) with traced = 0: the
\* value returned, *SymNum, NF and the lines of V_perm that are written, or
\* how the program stopped
Make_Poly_Sym_NF(P) ==
    LET stopped(why) == [stop |-> why, ns |-> 0, SymNum |-> 0,
                         V_perm |-> << >>, NF |-> << >>]
    IN  With(Init_rVM_VPM(P), LAMBDA a :
        IF a.exit THEN stopped("exit")
        ELSE With(OrderedCandidates(a.v, a.f, a.VPM), LAMBDA c :
                 IF c.exit THEN stopped("exit")
                 ELSE With(Aux_pNF_from_vNF(c.CL, c.ns, a.v, a.d, a.VM, -1),
                           LAMBDA b :
                          IF b.stop # "" THEN stopped(b.stop)
                          ELSE LET sym == -b.t
                                   fl  == Flagged(b.CL, c.ns)
                                   i0  == CHOOSE i \in fl : \A k \in fl : i <= k
                                   Cp  == b.CL[i0].C
                                   t   == Cardinality(fl)
                                   rows == (IF sym < SYM_Nmax
                                            THEN {sym} ELSE {}) \cup Idx(t)
                               IN  IF t # sym THEN stopped("exit")
                                   ELSE [stop |-> "", ns |-> c.ns,
                                         SymNum |-> sym,
                                         V_perm |-> [k \in rows |->
                                            IF k = sym /\ sym < SYM_Nmax
                                            THEN Cp
                                            ELSE SymPerm(Cp,
                                                   b.CL[FlaggedAt(b.CL, c.ns, k)].C,
                                                   a.v)],
                                         NF |-> b.V])))

-----------------------------------------------------------------------------
(* Polytopes handed to Make_Poly_NF and Make_Poly_Sym_NF                   *)

\* the points of the plane with small coordinates
GridPoints == [Idx(2) -> (-MaxCoord) .. MaxCoord]

\* twice the oriented area of the triangle p, q, r
Cross(p, q, r) ==
    (q[0] - p[0]) * (r[1] - p[1]) - (q[1] - p[1]) * (r[0] - p[0])

\* p -> q is an edge of the convex hull of Vs, the hull lying on its left
IsEdge(Vs, p, q) ==
    /\ p # q
    /\ \A r \in Vs \ {p, q} : Cross(p, q, r) > 0

\* Vs is the vertex set of a convex polygon
IsPolygon(Vs) ==
    /\ Cardinality(Vs) >= 3
    /\ \A p \in Vs : \E q \in Vs : IsEdge(Vs, p, q)

\* the origin lies in the interior of the polygon
OriginInside(Vs) ==
    \A p \in Vs : \A q \in Vs :
        IsEdge(Vs, p, q) => Cross(p, q, [i \in Idx(2) |-> 0]) > 0

\* p comes before q in the lexicographic order
PointBefore(p, q) == p[0] < q[0] \/ (p[0] = q[0] /\ p[1] < q[1])

\* the points of Vs in lexicographic order
SortedPoints(Vs) ==
    [i \in Idx(Cardinality(Vs)) |->
        CHOOSE p \in Vs : Cardinality({q \in Vs : PointBefore(q, p)}) = i]

\* the equation a.x + c >= 0 of the edge that starts at p, a primitive
EdgeEquation(Vs, p) ==
    LET q  == CHOOSE r \in Vs : IsEdge(Vs, p, r)
        dx == q[0] - p[0]
        dy == q[1] - p[1]
        g  == Gcd(Abs(dx), Abs(dy))
        a  == [i \in Idx(2) |-> IF i = 0 THEN (-dy) \div g ELSE dx \div g]
    IN  [a |-> a, c |-> -(a[0] * p[0] + a[1] * p[1])]

\* the polygon with the vertex set Vs: P->n, V->nv, the vertices
\* P->x[V->v[i]], F->ne and the equations F->e[j]
PolygonOf(Vs) ==
    LET pts == SortedPoints(Vs)
        k   == Cardinality(Vs)
    IN  [n |-> 2, nv |-> k, x |-> pts, ne |-> k,
         e |-> [j \in Idx(k) |-> EdgeEquation(Vs, pts[j])]]

\* the segment from lo to hi on the line
SegmentOf(lo, hi) ==
    [n |-> 1, nv |-> 2,
     x |-> [i \in Idx(2) |-> [j \in Idx(1) |-> IF i = 0 THEN lo ELSE hi]],
     ne |-> 2,
     e |-> [j \in Idx(2) |-> IF j = 0
                             THEN [a |-> [i \in Idx(1) |-> 1], c |-> -lo]
                             ELSE [a |-> [i \in Idx(1) |-> -1], c |-> hi]]]

\* the input polytopes: the segments, the triangles and the polygons around
\* the origin with vertices among the grid points, and the segments from -1
\* to NFX_Limit and to NFX_Limit + 1, for the grid points Grid
Polytopes(Grid) ==
    {SegmentOf(lh[1], lh[2]) :
        lh \in {ab \in ((-MaxCoord) .. MaxCoord) \X ((-MaxCoord) .. MaxCoord) :
                   ab[1] < ab[2]}}
    \cup {SegmentOf(-1, NFX_Limit), SegmentOf(-1, NFX_Limit + 1)}
    \cup {PolygonOf(Vs) :
            Vs \in {Ws \in SUBSET Grid :
                      /\ IsPolygon(Ws)
                      /\ (Cardinality(Ws) = 3 \/ OriginInside(Ws))}}

\* the integer matrices of determinant 1 or -1 with small entries
Unimodulars(d) ==
    {U \in [Idx(d) -> [Idx(d) -> (-MaxBasisEntry) .. MaxBasisEntry]] :
        Abs(Det(U, d)) = 1}

\* the polytope P in the basis changed by U: the vertices U*v, the equations
\* a*Uinv with the same c, so that every evaluation is unchanged
ChangeBasis(P, U) ==
    LET Ui == Inverse(U, P.n)
    IN  [P EXCEPT
           !.x = [i \in Idx(P.nv) |-> [r \in Idx(P.n) |->
                     SumF([k \in Idx(P.n) |-> U[r][k] * P.x[i][k]], 0, P.n - 1)]],
           !.e = [j \in Idx(P.ne) |->
                     [a |-> [k \in Idx(P.n) |->
                               SumF([r \in Idx(P.n) |-> P.e[j].a[r] * Ui[r][k]],
                                    0, P.n - 1)],
                      c |-> P.e[j].c]]]

\* the polytope P with its vertices listed in the order sg and its
\* equations in the order tu
Relabel(P, sg, tu) ==
    [P EXCEPT !.x = [i \in Idx(P.nv) |-> P.x[sg[i]]],
              !.e = [j \in Idx(P.ne) |-> P.e[tu[j]]]]

\* the orders in which k vertices or k equations are listed again: every
\* order of a few, the exchanges of two of many
Relabellings(k) ==
    {q \in Perms(k) :
        k <= MaxRelabelled \/ Cardinality({i \in Idx(k) : q[i] # i}) <= 2}

\* the polytope whose vertices are the columns of the normal form NFm of P,
\* G being the change of basis that led to NFm: the equations of P are
\* carried over by the inverse of G
NormalFormPolytope(P, NFm, Gm) ==
    LET Gi == Inverse(Gm, P.n)
    IN  [P EXCEPT
           !.x = [i \in Idx(P.nv) |-> [j \in Idx(P.n) |-> NFm[j][i]]],
           !.e = [j \in Idx(P.ne) |->
                     [a |-> [k \in Idx(P.n) |->
                               SumF([r \in Idx(P.n) |-> P.e[j].a[r] * Gi[r][k]],
                                    0, P.n - 1)],
                      c |-> P.e[j].c]]]

\* the changes of basis that lead from the vertices of P to its normal form
\* NFm: the transforms G of GLZ_Make_Trian_NF for the candidates that give NFm
NormalFormBases(P, NFm) ==
    With(Init_rVM_VPM(P), LAMBDA a :
    With(OrderedCandidates(a.v, a.f, a.VPM), LAMBDA c :
        {r.G : r \in {q \in {Aux_Make_Poly_NF(
                                  Columns(a.VM, a.d, a.v, c.CL[k].C), a.d, a.v) :
                                k \in Idx(c.ns)} :
                        ~q.oob /\ q.ret = 1 /\ q.X = NFm}}))

-----------------------------------------------------------------------------
(* A caller of Make_Poly_NF and Make_Poly_Sym_NF                           *)

InitPoly ==
    /\ ReductionIdle
    /\ VPMIdle
    /\ CallIdle
    /\ Poly \in Polytopes(GridPoints)
    /\ Img = << >>
    /\ how = ""
    /\ pNF = << >>
    /\ pRef = -1
    /\ imgNF = << >>
    /\ imgRef = -1
    /\ SymNum = 0
    /\ V_perm = << >>
    /\ SymNF = << >>
    /\ symNs = 0
    /\ ppc = "start"

\* Make_Poly_NF(_P,_V,_F,pNF) on the polytope Poly
Call_Make_Poly_NF ==
    /\ ppc = "start"
    /\ \E r \in {Make_Poly_NF(Poly)} :
          /\ ppc' = IF r.stop # "" THEN r.stop ELSE "normal"
          /\ pNF' = r.pNF
          /\ pRef' = IF r.stop # "" THEN -1 ELSE r.ref
    /\ UNCHANGED <<Poly, Img, how, imgNF, imgRef, SymNum, V_perm, SymNF,
                   symNs, redVars, vpmVars, callVars>>

\* the caller changes the basis of the lattice
Change_Basis ==
    /\ ppc = "normal"
    /\ \E U \in Unimodulars(Poly.n) : Img' = ChangeBasis(Poly, U)
    /\ how' = "basis"
    /\ ppc' = "image"
    /\ UNCHANGED <<Poly, pNF, pRef, imgNF, imgRef, SymNum, V_perm, SymNF,
                   symNs, redVars, vpmVars, callVars>>

\* the caller lists the vertices and the equations in another order
Relabel_Poly ==
    /\ ppc = "normal"
    /\ \E sg \in Relabellings(Poly.nv) : \E tu \in Relabellings(Poly.ne) :
          Img' = Relabel(Poly, sg, tu)
    /\ how' = "relabel"
    /\ ppc' = "image"
    /\ UNCHANGED <<Poly, pNF, pRef, imgNF, imgRef, SymNum, V_perm, SymNF,
                   symNs, redVars, vpmVars, callVars>>

\* the caller takes the columns of the normal form as the vertices
Take_Normal_Form ==
    /\ ppc = "normal"
    /\ \E Gm \in NormalFormBases(Poly, pNF) :
          Img' = NormalFormPolytope(Poly, pNF, Gm)
    /\ how' = "nf"
    /\ ppc' = "image"
    /\ UNCHANGED <<Poly, pNF, pRef, imgNF, imgRef, SymNum, V_perm, SymNF,
                   symNs, redVars, vpmVars, callVars>>

\* Make_Poly_NF(_P,_V,_F,pNF) on the polytope Img
Call_Make_Poly_NF_Img ==
    /\ ppc = "image"
    /\ \E r \in {Make_Poly_NF(Img)} :
          /\ ppc' = IF r.stop # "" THEN "img" \o r.stop ELSE "imaged"
          /\ imgNF' = r.pNF
          /\ imgRef' = IF r.stop # "" THEN -1 ELSE r.ref
    /\ UNCHANGED <<Poly, Img, how, pNF, pRef, SymNum, V_perm, SymNF, symNs,
                   redVars, vpmVars, callVars>>

\* Make_Poly_Sym_NF(_P,_V,_F,SymNum,V_perm,NF,0) on the polytope Poly
Call_Make_Poly_Sym_NF ==
    /\ ppc = "normal"
    /\ \E r \in {Make_Poly_Sym_NF(Poly)} :
          /\ ppc' = IF r.stop # "" THEN "sym" \o r.stop ELSE "sym"
          /\ SymNum' = r.SymNum
          /\ V_perm' = r.V_perm
          /\ SymNF' = r.NF
          /\ symNs' = r.ns
    /\ UNCHANGED <<Poly, Img, how, pNF, pRef, imgNF, imgRef, redVars, vpmVars, callVars>>

NextPoly ==
    \/ Call_Make_Poly_NF
    \/ Change_Basis
    \/ Relabel_Poly
    \/ Take_Normal_Form
    \/ Call_Make_Poly_NF_Img
    \/ Call_Make_Poly_Sym_NF

SpecPoly == InitPoly /\ [][NextPoly]_vars

-----------------------------------------------------------------------------
(* A caller of Aux_Make_Triang                                             *)

\* longest list of column orders that is not the list of a polytope
MaxListed == 2

\* the list of k candidates listed in the order q
Reordered(listed, k, q) == [m \in Idx(k) |-> listed[q[m]]]

\* orders of a list of k candidates: two of them exchanged, the list
\* reversed, the list rotated by one place
ListOrders(k) ==
    {Swap(Unpermuted(k), i, j) : i, j \in Idx(k)}
        \cup {[m \in Idx(k) |-> k - 1 - m], [m \in Idx(k) |-> (m + 1) % k]}

\* the lists of 1..MaxListed column orders of v columns, the lines being
\* left in place
ListedOrders(v) ==
    UNION {[Idx(k) -> {[L |-> Unpermuted(1), C |-> Cp] :
                          Cp \in Perms(v)}] : k \in 1 .. MaxListed}

\* the calls Aux_Make_Triang(CL,ns,V,n,nv,t) for the polytope P: the
\* candidates of its pairing matrix in every order of ListOrders (own),
\* and for a polytope of few vertices every list of ListedOrders; t = 0 or -1
TriangCalls(P) ==
    With(Init_rVM_VPM(P), LAMBDA a :
    With(OrderedCandidates(a.v, a.f, a.VPM), LAMBDA c :
        {[P |-> P, V |-> a.VM, d |-> a.d, v |-> a.v, CL |-> lst[1],
          ns |-> lst[2], own |-> lst[3], t |-> t0] :
            lst \in (IF c.exit THEN {}
                     ELSE {<<Reordered(c.CL, c.ns, q), c.ns, TRUE>> :
                              q \in ListOrders(c.ns)})
                    \cup (IF a.v > MaxRelabelled THEN {}
                          ELSE {<<lo, Cardinality(DOMAIN lo), FALSE>> :
                                   lo \in ListedOrders(a.v)}),
            t0 \in {0, -1}}))

InitTriang ==
    /\ ReductionIdle
    /\ VPMIdle
    /\ PolyIdle
    /\ \E P \in Polytopes(GridPoints) : arg \in TriangCalls(P)
    /\ out = << >>
    /\ cpc = "call"

\* Aux_Make_Triang(CL,ns,V,n,nv,t)
Call_Aux_Make_Triang ==
    /\ cpc = "call"
    /\ \E r \in {Aux_Make_Triang(arg.CL, arg.ns, arg.V, arg.d, arg.v, arg.t)} :
          /\ out' = r
          /\ cpc' = IF r.stop # "" THEN r.stop ELSE "returned"
    /\ UNCHANGED <<arg, redVars, vpmVars, polyVars>>

NextTriang == Call_Aux_Make_Triang

SpecTriang == InitTriang /\ [][NextTriang]_vars

-----------------------------------------------------------------------------
(* A caller of INV_GLZmatrix                                               *)

\* INV_GLZmatrix(G,d,Ginv) without the comparison of X with the unit matrix
INV_GLZmatrix_Unchecked(Gm, d) ==
    With(GLZ_Make_Trian_NF(Gm, d, d), LAMBDA r :
        [stop |-> IF r.oob THEN "oob" ELSE "", Ginv |-> r.G])

\* INV_GLZmatrix(G,d,Ginv): Ginv on return, or how the program stopped:
\* "abort" at assert(0) after the report, "oob" when GLZ_Make_Trian_NF left
\* the columns of X
INV_GLZmatrix(Gm, d) ==
    With(GLZ_Make_Trian_NF(Gm, d, d), LAMBDA r :
        [stop |-> IF r.oob THEN "oob"
                  ELSE IF r.X # Identity(d) THEN "abort" ELSE "",
         Ginv |-> r.G])

InitInv ==
    /\ ReductionIdle
    /\ VPMIdle
    /\ PolyIdle
    /\ \E d \in 1 .. MaxDim :
          \E Gm \in SmallMatrices(d, d) \cup BigMatrices(d, d) :
              arg = [G |-> Gm, d |-> d]
    /\ out = << >>
    /\ cpc = "call"

\* INV_GLZmatrix(G,&d,Ginv)
Call_INV_GLZmatrix ==
    /\ cpc = "call"
    /\ \E r \in {INV_GLZmatrix(arg.G, arg.d)} :
          /\ out' = r
          /\ cpc' = IF r.stop # "" THEN r.stop ELSE "returned"
    /\ UNCHANGED <<arg, redVars, vpmVars, polyVars>>

NextInv == Call_INV_GLZmatrix

SpecInv == InitInv /\ [][NextInv]_vars

-----------------------------------------------------------------------------

(* A caller of GL_RoundQ                                                   *)

InitRound ==
    /\ ReductionIdle
    /\ VPMIdle
    /\ PolyIdle
    /\ \E N0 \in (-MaxNumerator) .. MaxNumerator :
          \E D0 \in ((-MaxDenominator) .. MaxDenominator) \ {0} :
              arg = [N |-> N0, D |-> D0]
    /\ out = << >>
    /\ cpc = "call"

\* GL_RoundQ(N,D)
Call_GL_RoundQ ==
    /\ cpc = "call"
    /\ out' = [Q |-> GL_RoundQ(arg.N, arg.D)]
    /\ cpc' = "returned"
    /\ UNCHANGED <<arg, redVars, vpmVars, polyVars>>

NextRound == Call_GL_RoundQ

SpecRound == InitRound /\ [][NextRound]_vars

-----------------------------------------------------------------------------

(* A caller of GL_W_to_GLZ                                                 *)

\* the vectors W of 2..MaxWLen non-zero integers
WVectors ==
    UNION {[Idx(d) -> ((-MaxWEntry) .. MaxWEntry) \ {0}] : d \in 2 .. MaxWLen}

InitW ==
    /\ ReductionIdle
    /\ VPMIdle
    /\ PolyIdle
    /\ \E W \in WVectors : arg = [W |-> W, d |-> Cardinality(DOMAIN W)]
    /\ out = << >>
    /\ cpc = "call"

\* GL_W_to_GLZ(W,d,GLZ)
Call_GL_W_to_GLZ ==
    /\ cpc = "call"
    /\ out' = GL_W_to_GLZ(arg.W, arg.d)
    /\ cpc' = "returned"
    /\ UNCHANGED <<arg, redVars, vpmVars, polyVars>>

NextW == Call_GL_W_to_GLZ

SpecW == InitW /\ [][NextW]_vars

-----------------------------------------------------------------------------

(* A caller of New_pNF_Order                                               *)

\* the pairing matrices whose normal form and candidates are handed on
OrderMatrices ==
    UNION {[Idx(fv[1]) -> [Idx(fv[2]) -> 0 .. MaxOrderEntry]] :
              fv \in (1 .. MaxOrderLines) \X (1 .. MaxOrderCols)}

\* New_pNF_Order is called as in Make_Poly_NF: after Make_VPM_NF, with its CL,
\* ns and VPM_NF
InitOrder ==
    /\ ReductionIdle
    /\ VPMIdle
    /\ PolyIdle
    /\ \E x \in OrderMatrices :
          LET f == Cardinality(DOMAIN x)
              v == Cardinality(DOMAIN x[0])
              r == Make_VPM_NF(x, f, v)
          IN  arg = [v |-> v, f |-> f, CL |-> r.CL, ns |-> r.ns,
                     VPM_NF |-> r.VPM_NF]
    /\ out = << >>
    /\ cpc = "call"

\* New_pNF_Order(v,f,CL,ns,VPM_NF)
Call_New_pNF_Order ==
    /\ cpc = "call"
    /\ out' = [CL |-> New_pNF_Order(arg.v, arg.f, arg.CL, arg.ns, arg.VPM_NF)]
    /\ cpc' = "returned"
    /\ UNCHANGED <<arg, redVars, vpmVars, polyVars>>

NextOrder == Call_New_pNF_Order

SpecOrder == InitOrder /\ [][NextOrder]_vars

-----------------------------------------------------------------------------
(* A caller of GLZ_Make_Trian_NF that compares lattice bases               *)

\* the shapes d x v of the matrices whose bases are compared
LatticeShapes == {s \in (1 .. MaxLatticeDim) \X (1 .. MaxCols) : s[1] <= s[2]}

\* a matrix X of rank d and a matrix U of determinant 1 or -1
InitLattice ==
    /\ ReductionIdle
    /\ VPMIdle
    /\ PolyIdle
    /\ \E dv \in LatticeShapes : \E M \in SmallMatrices(dv[1], dv[2]) :
          /\ HasFullRank(M, dv[1], dv[2])
          /\ \E U \in Unimodulars(dv[1]) :
                arg = [X |-> M, d |-> dv[1], v |-> dv[2], U |-> U]
    /\ out = << >>
    /\ cpc = "call"

\* GLZ_Make_Trian_NF(X,&d,&v,G) with X, then with U * X and with the X that
\* the first call left
Call_GLZ_On_Bases ==
    /\ cpc = "call"
    /\ \E a \in {GLZ_Make_Trian_NF(arg.X, arg.d, arg.v)} :
          out' = [of    |-> a,
                  image |-> GLZ_Make_Trian_NF(
                                MatMul(arg.U, arg.X, arg.d, arg.d, arg.v),
                                arg.d, arg.v),
                  again |-> GLZ_Make_Trian_NF(a.X, arg.d, arg.v)]
    /\ cpc' = "returned"
    /\ UNCHANGED <<arg, redVars, vpmVars, polyVars>>

NextLattice == Call_GLZ_On_Bases

SpecLattice == InitLattice /\ [][NextLattice]_vars

-----------------------------------------------------------------------------
(* Make_Poly_UTriang and a caller of it                                    *)

\* the matrix whose line j holds the coordinate j of the points x[0..np-1]:
\* "UTF[j][i]=P->x[i][j]", and the same loop read backwards
Transposed(x, rows, cols) == [i \in Idx(cols) |-> [j \in Idx(rows) |-> x[j][i]]]

\* Make_Poly_UTriang with the points copied back only when
\* Aux_Make_Poly_NF returned 1
Make_Poly_UTriang_Checked(P) ==
    With(Aux_Make_Poly_NF(Transposed(P.x, P.np, P.n), P.n, P.np), LAMBDA r :
        [stop |-> IF r.oob THEN "oob" ELSE "",
         x    |-> IF r.ret = 1 THEN Transposed(r.X, P.n, P.np) ELSE P.x,
         ret  |-> r.ret,
         G    |-> r.G])

\* Make_Poly_UTriang(P): the points P->x on return; ret and G are what
\* Aux_Make_Poly_NF returned and GLZ_Make_Trian_NF left in its local G, both
\* unused by Make_Poly_UTriang
Make_Poly_UTriang(P) ==
    IF VERT_Nmax < P.np
    THEN [stop |-> "", x |-> P.x, ret |-> -1, G |-> << >>]
    ELSE With(Aux_Make_Poly_NF(Transposed(P.x, P.np, P.n), P.n, P.np),
              LAMBDA r :
                 [stop |-> IF r.oob THEN "oob" ELSE "",
                  x    |-> Transposed(r.X, P.n, P.np),
                  ret  |-> r.ret,
                  G    |-> r.G])

\* the list of the np points in dimension n that are the columns of M
PointList(M, d, v) == [n |-> d, np |-> v, x |-> Transposed(M, d, v)]

\* Make_Poly_UTriang is handed a list of np points in dimension n, a small
\* one or one with a point far out
InitUTriang ==
    /\ ReductionIdle
    /\ VPMIdle
    /\ PolyIdle
    /\ \E dv \in Shapes :
          \E M \in SmallMatrices(dv[1], dv[2]) \cup BigMatrices(dv[1], dv[2]) :
              arg = PointList(M, dv[1], dv[2])
    /\ out = << >>
    /\ cpc = "call"

\* Make_Poly_UTriang(P)
Call_Make_Poly_UTriang ==
    /\ cpc = "call"
    /\ \E r \in {Make_Poly_UTriang(arg)} :
          /\ out' = r
          /\ cpc' = IF r.stop # "" THEN r.stop ELSE "returned"
    /\ UNCHANGED <<arg, redVars, vpmVars, polyVars>>

NextUTriang == Call_Make_Poly_UTriang

SpecUTriang == InitUTriang /\ [][NextUTriang]_vars

-----------------------------------------------------------------------------
(* Make_VPM_NF step by step                                                *)

\* the shapes f x v of the vertex pairing matrices
PairingShapes == (1 .. MaxFacets) \X (1 .. MaxVerts)

\* the f x v matrices of non-negative integers
PairingMatrices(f, v) == [Idx(f) -> [Idx(v) -> 0 .. MaxPairing]]

\* Make_VPM_NF is entered: "*ns=1;" and no candidate yet
InitVPM ==
    /\ ReductionIdle
    /\ PolyIdle
    /\ CallIdle
    /\ \E fv \in PairingShapes :
          /\ Xnf = fv[1]
          /\ Xnv = fv[2]
          /\ VPM \in PairingMatrices(fv[1], fv[2])
    /\ CL = << >>
    /\ ns = 1
    /\ Sblk = << >>
    /\ VPM_NF = << >>
    /\ line = 0
    /\ vpc = "init"

\* "Aux_vNF_Init(_X, x, CL, S, ns);"
VPM_Init ==
    /\ vpc = "init"
    /\ \E a \in {Aux_vNF_Init(VPM, Xnf, Xnv)} :
          /\ CL' = a.CL
          /\ ns' = a.ns
          /\ Sblk' = a.S
    /\ line' = 1
    /\ vpc' = "lines"
    /\ UNCHANGED <<VPM, Xnf, Xnv, VPM_NF, redVars, polyVars, callVars>>

\* "for(i=1;i<_X->nf-1;i++)Aux_vNF_Line(i,_X,x,CL,S,ns);": one pass of the loop
VPM_Line ==
    /\ vpc = "lines"
    /\ line < Xnf - 1
    /\ \E a \in {Aux_vNF_Line(line, VPM, Xnf, Xnv, CL, Sblk, ns)} :
          /\ CL' = a.CL
          /\ ns' = a.ns
          /\ Sblk' = a.S
          /\ vpc' = IF a.exit THEN "exit" ELSE "lines"
          /\ line' = IF a.exit THEN line ELSE line + 1
    /\ UNCHANGED <<VPM, Xnf, Xnv, VPM_NF, redVars, polyVars, callVars>>

\* "for(i=0;i<_X->nv;i++) for(j=0;j<_X->nf;j++)
\*  VPM_NF[j][i]=x[CL->L[j]][CL->C[i]];" and the return
VPM_Write ==
    /\ vpc = "lines"
    /\ line >= Xnf - 1
    /\ VPM_NF' = Permuted(VPM, Xnf, Xnv, CL[0])
    /\ vpc' = "done"
    /\ UNCHANGED <<VPM, Xnf, Xnv, CL, ns, Sblk, line, redVars, polyVars, callVars>>

NextVPM == VPM_Init \/ VPM_Line \/ VPM_Write

SpecVPM == InitVPM /\ [][NextVPM]_vars

-----------------------------------------------------------------------------
(* Properties of GLZ_Make_Trian_NF                                         *)

GLZ_Succeeded == pc = "done" /\ ret = 1

\* C5: whenever GLZ_Make_Trian_NF returns 1, the matrix it leaves in X is
\* the product of the transform G it outputs with the matrix X held on entry.
C5_TransformRelation ==
    GLZ_Succeeded => X = MatMul(G, Xin, n, n, nv)

\* a successful reduction of a 3-line matrix by a transform that combines
\* lines
C5_Witness ==
    /\ GLZ_Succeeded
    /\ n = 3
    /\ G # Identity(n)
    /\ X # Xin
    /\ \E i \in Idx(n) : \E j \in Idx(n) : i # j /\ G[i][j] # 0

\* the first column of line i of M holding a non-zero entry (v if none)
LeadColumn(M, v, i) ==
    IF \E j \in Idx(v) : M[i][j] # 0
    THEN CHOOSE j \in Idx(v) : M[i][j] # 0 /\ \A k \in Idx(j) : M[i][k] = 0
    ELSE v

\* M is in echelon (Hermite) form: the pivot of line i is its first
\* non-zero entry
IsEchelon(M, d, v) ==
    /\ \A i \in Idx(d) : LeadColumn(M, v, i) < v
    /\ \A i \in Idx(d) : \A k \in Idx(d) :
          i < k => LeadColumn(M, v, i) < LeadColumn(M, v, k)
    /\ \A i \in Idx(d) :
          LET c == LeadColumn(M, v, i)
          IN  /\ M[i][c] > 0
              /\ \A k \in Idx(d) : k > i => M[k][c] = 0
              /\ \A k \in Idx(d) : k < i => 0 <= M[k][c] /\ M[k][c] < M[i][c]

\* C6: after a successful GLZ_Make_Trian_NF the matrix X is in echelon
\* form: pivot columns strictly increasing, every line zero left of its
\* pivot, pivots positive, zero below a pivot, and above a pivot a
\* non-negative entry smaller than the pivot.
C6_EchelonForm ==
    GLZ_Succeeded => IsEchelon(X, n, nv)

\* a successful reduction with a pivot larger than 1 below a non-zero entry,
\* on an input that was not in echelon form
C6_Witness ==
    /\ GLZ_Succeeded
    /\ ~IsEchelon(Xin, n, nv)
    /\ \E i \in Idx(n) : \E k \in Idx(i) :
          X[i][LeadColumn(X, nv, i)] > 1 /\ X[k][LeadColumn(X, nv, i)] > 0

\* C7: the transform G of GLZ_Make_Trian_NF has determinant +1 or -1 on
\* entry, after every pass of the pivot loop and on return.
C7_Unimodular ==
    Abs(Det(G, n)) = 1

\* three pivots done through a combination of three lines, with det(G) = -1
C7_Witness ==
    /\ pc = "pivot"
    /\ n = 3
    /\ L = 3
    /\ Det(G, n) = -1
    /\ \A i \in Idx(n) : G[0][i] # 0

-----------------------------------------------------------------------------
(* Properties of SL2Z_Make_Poly_NF                                         *)

\* C8: on every input of rank *n the transform S that SL2Z_Make_Poly_NF
\* outputs has determinant +1.
C8_DeterminantOne ==
    (pc = "done" /\ ret = 1 /\ HasFullRank(Xin, n, nv)) => Det(S, n) = 1

\* C18: on every input of rank *n on which SL2Z_Make_Poly_NF and
\* GLZ_Make_Trian_NF both return 1, they leave the same matrix in X and
\* the same transform, S[i][j] = G[i][j] for all i, j.
C18_SameAsGLZ ==
    (pc = "done" /\ ret = 1 /\ HasFullRank(Xin, n, nv)) =>
        \A g \in {GLZ_Make_Trian_NF(Xin, n, nv)} :
            (~g.oob /\ g.ret = 1) => X = g.X /\ S = g.G

\* the two reductions agree in X and in the transform on every input of
\* rank *n with two lines or more on which both return 1
C18_SameAsGLZ_Above1 ==
    (pc = "done" /\ ret = 1 /\ HasFullRank(Xin, n, nv) /\ n >= 2) =>
        \A g \in {GLZ_Make_Trian_NF(Xin, n, nv)} :
            (~g.oob /\ g.ret = 1) => X = g.X /\ S = g.G

-----------------------------------------------------------------------------
(* Properties of Make_VPM_NF                                               *)

\* the first rows lines of M read line by line
ReadLines(M, rows, v) == [k \in Idx(rows * v) |-> M[k \div v][k % v]]

\* a is lexicographically smaller than b or equal to it
LexLeq(a, b) ==
    \/ a = b
    \/ \E i \in DOMAIN a : a[i] < b[i] /\ \A j \in DOMAIN a : j < i => a[j] = b[j]

\* the lines Make_VPM_NF orders explicitly: all but the last one
OrderedLines(f) == IF f = 1 THEN 1 ELSE f - 1

VPM_Done == vpc = "done"

\* C9 as stated: for every f x v matrix of non-negative integers, VPM_NF is
\* the lexicographically largest matrix, read line by line, among all
\* matrices obtained from the input by permuting its lines and its columns.
C9_LexLargest ==
    VPM_Done =>
        \A rp \in Perms(Xnf) : \A cp \in Perms(Xnv) :
            LexLeq(ReadLines(Permuted(VPM, Xnf, Xnv, [L |-> rp, C |-> cp]),
                             Xnf, Xnv),
                   ReadLines(VPM_NF, Xnf, Xnv))

\* C9 amended: for every f x v matrix of non-negative integers, the lines
\* 0..f-2 of VPM_NF (line 0 when f = 1) are the lexicographically largest
\* among the same lines of all matrices obtained from the input by permuting
\* its lines and its columns, so that they are the same for two inputs that
\* differ by such permutations; the last line is not optimised.
C9_LexLargestButLast ==
    VPM_Done =>
        \A rp \in Perms(Xnf) : \A cp \in Perms(Xnv) :
            LexLeq(ReadLines(Permuted(VPM, Xnf, Xnv, [L |-> rp, C |-> cp]),
                             OrderedLines(Xnf), Xnv),
                   ReadLines(VPM_NF, OrderedLines(Xnf), Xnv))

\* Make_VPM_NF returned for a matrix of 4 lines that it had to rearrange,
\* line 0 of the input not being the best one, and whose last line another
\* arrangement would improve
C9_Witness ==
    /\ VPM_Done
    /\ Xnf = 4
    /\ Xnv = 3
    /\ CL[0].L[0] # 0
    /\ VPM_NF[3] # VPM[CL[0].L[3]]
    /\ \E cp \in Perms(Xnv) :
          /\ ReadLines(Permuted(VPM, Xnf, Xnv, [L |-> CL[0].L, C |-> cp]), 3, Xnv)
                = ReadLines(VPM_NF, 3, Xnv)
          /\ ~LexLeq(Permuted(VPM, Xnf, Xnv, [L |-> CL[0].L, C |-> cp])[3],
                     VPM_NF[3])

\* p holds a permutation L of the lines and a permutation C of the columns
IsCandidate(p, f, v) == p.L \in Perms(f) /\ p.C \in Perms(v)

\* C10 as stated: on return every retained candidate CL[k], k < ns, holds a
\* permutation L of the lines and a permutation C of the columns with
\* x[L[i]][C[j]] = VPM_NF[i][j] for every line i, the last one included.
C10_CandidatesValid ==
    VPM_Done =>
        \A k \in Idx(ns) :
            /\ IsCandidate(CL[k], Xnf, Xnv)
            /\ Permuted(VPM, Xnf, Xnv, CL[k]) = VPM_NF

\* C10 amended: on return every retained candidate CL[k], k < ns, holds a
\* permutation L of the lines and a permutation C of the columns with
\* x[L[i]][C[j]] = VPM_NF[i][j] for every line i < f-1 (line 0 when f = 1)
\* and every column j; the last line f-1 of a candidate may differ.
C10_CandidatesValidButLast ==
    VPM_Done =>
        \A k \in Idx(ns) :
            /\ IsCandidate(CL[k], Xnf, Xnv)
            /\ \A i \in Idx(OrderedLines(Xnf)) : \A j \in Idx(Xnv) :
                   VPM[CL[k].L[i]][CL[k].C[j]] = VPM_NF[i][j]

\* Make_VPM_NF returned several candidates for a matrix of 4 lines, one of
\* them with other lines and other columns than the first and with a last
\* line that is not the last line of VPM_NF
C10_Witness ==
    /\ VPM_Done
    /\ Xnf = 4
    /\ ns >= 3
    /\ \E k \in Idx(ns) :
          /\ CL[k].L # CL[0].L
          /\ CL[k].C # CL[0].C
          /\ Permuted(VPM, Xnf, Xnv, CL[k])[3] # VPM_NF[3]

-----------------------------------------------------------------------------
(* Properties of Make_Poly_NF and Make_Poly_Sym_NF                         *)

\* the matrix whose column j is the vertex g[Cc[j]] of the polytope P
PermutedVertices(P, g, Cc) ==
    [i \in Idx(P.n) |-> [j \in Idx(P.nv) |-> P.x[g[Cc[j]]][i]]]

\* GLZ_Make_Trian_NF on the matrix Xm returns 1 and leaves NFm
ReducesTo(Xm, d, v, NFm) ==
    LET r == GLZ_Make_Trian_NF(Xm, d, v)
    IN  ~r.oob /\ r.ret = 1 /\ r.X = NFm

\* C1: basis invariance: Make_Poly_NF on the vertices U*v of a polytope P,
\* in the same order and with the equations transformed so that every
\* evaluation is unchanged, U an integer matrix of determinant 1 or -1,
\* yields the same normal form as Make_Poly_NF on P.
C1_BasisInvariance ==
    (ppc = "imaged" /\ how = "basis") => imgNF = pNF

\* both runs returned for a polygon of 4 vertices in a basis that changes
\* vertices and equations and moves a vertex out of the grid
C1_Witness ==
    /\ ppc = "imaged"
    /\ how = "basis"
    /\ Poly.nv = 4
    /\ Img.e # Poly.e
    /\ \E i \in Idx(Img.nv) : Abs(Img.x[i][0]) > MaxCoord
    /\ \E i \in Idx(Img.nv) : \A j \in Idx(Img.nv) : Img.x[i] # Poly.x[j]

\* C2: relabelling invariance: for every order of the vertex list and every
\* order of the equation list of a polytope P, Make_Poly_NF returns the same
\* normal form as for P in its original order.
C2_RelabelInvariance ==
    (ppc = "imaged" /\ how = "relabel") => imgNF = pNF

\* both runs returned for a polytope that is not reflexive, with no vertex
\* and no equation left in its place
C2_Witness ==
    /\ ppc = "imaged"
    /\ how = "relabel"
    /\ pRef = 0
    /\ \A i \in Idx(Poly.nv) : Img.x[i] # Poly.x[i]
    /\ \A j \in Idx(Poly.ne) : Img.e[j] # Poly.e[j]
    /\ imgNF # [j \in Idx(Img.n) |-> [i \in Idx(Img.nv) |-> Img.x[i][j]]]

\* C3: idempotence: Make_Poly_NF on the polytope whose vertex list is the
\* list of the columns of the normal form NF(P), with the equations of P
\* carried over by the same change of basis, returns NF(P) again.
C3_Idempotence ==
    (ppc = "imaged" /\ how = "nf") => imgNF = pNF

\* both runs returned for a polygon of 5 vertices whose normal form has
\* other vertices than the polygon itself
C3_Witness ==
    /\ ppc = "imaged"
    /\ how = "nf"
    /\ Poly.nv = 5
    /\ Img.e # Poly.e
    /\ \E i \in Idx(Img.nv) : \A j \in Idx(Img.nv) : Img.x[i] # Poly.x[j]

\* C4 as stated: for every k < SymNum, with g = V_perm[k] and
\* C = V_perm[SymNum] as returned by Make_Poly_Sym_NF, GLZ_Make_Trian_NF on
\* the matrix whose column j is the vertex g[C[j]] yields the returned NF.
C4_AutomorphismSound ==
    ppc = "sym" =>
        \A k \in Idx(SymNum) :
            /\ SymNum \in DOMAIN V_perm
            /\ ReducesTo(PermutedVertices(Poly, V_perm[k], V_perm[SymNum]),
                         Poly.n, Poly.nv, SymNF)

\* C4 amended: if SymNum < SYM_Nmax then for every k < SymNum, with
\* g = V_perm[k] and C = V_perm[SymNum] as returned by Make_Poly_Sym_NF,
\* GLZ_Make_Trian_NF on the matrix whose column j is the vertex g[C[j]]
\* yields the returned NF; if SymNum = SYM_Nmax the line V_perm[SymNum] is
\* not written and only the lines V_perm[k], k < SymNum, are returned.
C4_AutomorphismSoundBelowMax ==
    ppc = "sym" =>
        /\ DOMAIN V_perm = IF SymNum < SYM_Nmax THEN Idx(SymNum + 1)
                           ELSE Idx(SymNum)
        /\ SymNum < SYM_Nmax =>
              \A k \in Idx(SymNum) :
                  ReducesTo(PermutedVertices(Poly, V_perm[k], V_perm[SymNum]),
                            Poly.n, Poly.nv, SymNF)

\* Make_Poly_Sym_NF returned 6 symmetries of a triangle, the column order
\* V_perm[SymNum] is not the order of the input and a symmetry moves every
\* vertex
C4_Witness ==
    /\ ppc = "sym"
    /\ SymNum = 6
    /\ SymNum < SYM_Nmax
    /\ \E j \in Idx(Poly.nv) : V_perm[SymNum][j] # j
    /\ \E k \in Idx(SymNum) : \A j \in Idx(Poly.nv) : V_perm[k][j] # j

-----------------------------------------------------------------------------
(* Properties of the candidate list of Make_VPM_NF                         *)

\* the pairs of a permutation of the lines and a permutation of the columns
\* that map the input onto VPM_NF
OptimalPairs ==
    {p \in [L : Perms(Xnf), C : Perms(Xnv)] :
        Permuted(VPM, Xnf, Xnv, p) = VPM_NF}

\* the pairs held by the candidates CL[0..ns-1]
RetainedPairs == {[L |-> CL[k].L, C |-> CL[k].C] : k \in Idx(ns)}

\* C11 as stated: when Make_VPM_NF returns, every pair of a permutation of
\* the lines and a permutation of the columns that maps the input onto
\* VPM_NF is among the ns candidates, each exactly once, so that ns is the
\* number of such pairs.
C11_CandidatesComplete ==
    VPM_Done =>
        /\ OptimalPairs \subseteq RetainedPairs
        /\ ns = Cardinality(OptimalPairs)

\* the pairs that map the lines 0..f-2 of the input (line 0 when f = 1) onto
\* the same lines of VPM_NF
OptimalButLast ==
    {p \in [L : Perms(Xnf), C : Perms(Xnv)] :
        \A i \in Idx(OrderedLines(Xnf)) : \A j \in Idx(Xnv) :
            VPM[p.L[i]][p.C[j]] = VPM_NF[i][j]}

\* C11 amended: when Make_VPM_NF returns, the permutations of the lines that
\* map the lines 0..f-2 of the input (line 0 when f = 1) onto the same lines
\* of VPM_NF together with some permutation of the columns are the line
\* permutations of the ns candidates, each held by exactly one candidate,
\* so that ns is the number of such line permutations; of the column
\* permutations that go with one of them a candidate holds one only, and
\* the last line is not compared.
C11_LinePermutationsComplete ==
    VPM_Done =>
        /\ \A k \in Idx(ns) : \A m \in Idx(ns) : CL[k].L = CL[m].L => k = m
        /\ {CL[k].L : k \in Idx(ns)} = {p.L : p \in OptimalButLast}
        /\ ns = Cardinality({p.L : p \in OptimalButLast})

\* Make_VPM_NF returned several candidates for a matrix of 4 lines with
\* more optimal pairs than candidates, the first candidate moving line 0
\* and column 0 of the input
C11_Witness ==
    /\ VPM_Done
    /\ Xnf = 4
    /\ ns >= 3
    /\ Cardinality(OptimalPairs) > ns
    /\ CL[0].L[0] # 0
    /\ CL[0].C[0] # 0

-----------------------------------------------------------------------------
(* Properties of Aux_Make_Triang                                           *)

\* what GLZ_Make_Trian_NF leaves for the vertex matrix in the column order
\* of the candidate k of the call
ReducedCandidate(k) ==
    GLZ_Make_Trian_NF(Columns(arg.V, arg.d, arg.v, arg.CL[k].C),
                      arg.d, arg.v).X

\* the matrix A comes before the matrix B, or is B, when both are read line
\* by line and the first entry that differs decides
RowMajorLeq(A, B) ==
    LexLeq(ReadLines(A, arg.d, arg.v), ReadLines(B, arg.d, arg.v))

\* the candidates of the call whose reduced matrix is M
CandidatesGiving(M) == {k \in Idx(arg.ns) : ReducedCandidate(k) = M}

\* C12: the matrix Aux_Make_Triang leaves in V is the smallest, read line
\* by line with signed comparison, of the matrices GLZ_Make_Trian_NF gives
\* for the vertex matrix in the column orders of the ns candidates, whatever
\* the order of the candidates in CL; with t = -1 the candidates left with
\* s = 1 are exactly those whose reduced matrix is that smallest one, -t is
\* their number, and for the candidates of the polytope itself V and -t are
\* the NF and the SymNum Make_Poly_Sym_NF reports.
C12_SmallestReduced ==
    cpc = "returned" =>
        With(CandidatesGiving(out.V), LAMBDA least :
            /\ least # {}
            /\ \A k \in Idx(arg.ns) : RowMajorLeq(out.V, ReducedCandidate(k))
            /\ arg.t = -1 =>
                  /\ \A k \in Idx(arg.ns) :
                        out.CL[k].s = (IF k \in least THEN 1 ELSE 0)
                  /\ -out.t = Cardinality(least)
                  /\ arg.own =>
                        \A r \in {Make_Poly_Sym_NF(arg.P)} :
                            r.stop = "" => r.NF = out.V /\ r.SymNum = -out.t)

\* Aux_Make_Triang returned with t = -1 for three candidates or more, the
\* smallest matrix being that of two of them but neither of the first nor
\* of the last, and some candidate giving another matrix after it
C12_Witness ==
    /\ cpc = "returned"
    /\ arg.t = -1
    /\ arg.ns >= 3
    /\ Cardinality(CandidatesGiving(out.V)) = 2
    /\ 0 \notin CandidatesGiving(out.V)
    /\ arg.ns - 1 \notin CandidatesGiving(out.V)

-----------------------------------------------------------------------------
(* Properties of the list V_perm of Make_Poly_Sym_NF                       *)

\* C13: on return of Make_Poly_Sym_NF the lines V_perm[0..SymNum-1] are
\* SymNum pairwise distinct permutations of the vertex numbers 0..v-1, the
\* first is the identity, SymNum candidates are left with s set, and
\* V_perm[k] maps C0[j] to Ck[j] for every j, Ck being the column order
\* (after New_pNF_Order) of the k-th candidate with s set and C0 that of
\* the first.
C13_PermutationList ==
    ppc = "sym" =>
        With(Init_rVM_VPM(Poly), LAMBDA a :
        With(OrderedCandidates(a.v, a.f, a.VPM), LAMBDA c :
        With(Aux_pNF_from_vNF(c.CL, c.ns, a.v, a.d, a.VM, -1), LAMBDA b :
            /\ Idx(SymNum) \subseteq DOMAIN V_perm
            /\ Cardinality(Flagged(b.CL, c.ns)) = SymNum
            /\ \A k \in Idx(SymNum) :
                  /\ DOMAIN V_perm[k] = Idx(Poly.nv)
                  /\ {V_perm[k][j] : j \in Idx(Poly.nv)} = Idx(Poly.nv)
                  /\ \A m \in Idx(SymNum) : m # k => V_perm[m] # V_perm[k]
                  /\ \A j \in Idx(Poly.nv) :
                        V_perm[k][b.CL[FlaggedAt(b.CL, c.ns, 0)].C[j]]
                            = b.CL[FlaggedAt(b.CL, c.ns, k)].C[j]
            /\ \A j \in Idx(Poly.nv) : V_perm[0][j] = j)))

\* Make_Poly_Sym_NF returned 8 symmetries of a polygon of 4 vertices, one
\* of them moving every vertex and one of them exchanging two vertices only
C13_Witness ==
    /\ ppc = "sym"
    /\ Poly.nv = 4
    /\ SymNum = 8
    /\ \E k \in Idx(SymNum) : \A j \in Idx(Poly.nv) : V_perm[k][j] # j
    /\ \E k \in Idx(SymNum) :
          Cardinality({j \in Idx(Poly.nv) : V_perm[k][j] # j}) = 2

-----------------------------------------------------------------------------
(* Make_Poly_Sym_NF on the square with the vertices on the axes            *)

\* the point (a, b) of the plane
PointAt(a, b) == [i \in Idx(2) |-> IF i = 0 THEN a ELSE b]

\* the square with the vertices (1,0), (0,1), (-1,0), (0,-1) and its four
\* equations
Diamond ==
    PolygonOf({PointAt(1, 0), PointAt(0, 1), PointAt(-1, 0), PointAt(0, -1)})

\* the rotations of the plane by a multiple of a quarter turn
QuarterTurns ==
    {U \in Unimodulars(2) :
        Det(U, 2) = 1 /\ U[0][0] = U[1][1] /\ U[0][1] = -U[1][0]}

\* C14: for the square with the vertices (1,0), (0,1), (-1,0), (0,-1)
\* Make_Poly_Sym_NF reports 8 symmetries, and it returns the same NF and the
\* same number for every order of the four vertices, every order of the
\* four equations and every copy turned by a multiple of a quarter turn.
C14_SquareDiamond ==
    (ppc = "sym" /\ Poly = Diamond) =>
        /\ SymNum = 8
        /\ \A U \in QuarterTurns : \A sg \in Perms(4) : \A tu \in Perms(4) :
              \A r \in {Make_Poly_Sym_NF(Relabel(ChangeBasis(Poly, U), sg, tu))} :
                  /\ r.stop = ""
                  /\ r.SymNum = 8
                  /\ r.NF = SymNF

\* Make_Poly_Sym_NF returned for the square with the vertices on the axes,
\* and a quarter turn of it lists the vertices in another order
C14_Witness ==
    /\ ppc = "sym"
    /\ Poly = Diamond
    /\ SymNF # << >>
    /\ \E U \in QuarterTurns : ChangeBasis(Poly, U).x # Poly.x

-----------------------------------------------------------------------------
(* Make_Poly_Sym_NF on the triangle (1,0), (0,1), (-1,-1)                  *)

\* the triangle with the vertices (1,0), (0,1), (-1,-1) and its three
\* equations
Triangle == PolygonOf({PointAt(1, 0), PointAt(0, 1), PointAt(-1, -1)})

\* the order g of the vertices of P is a symmetry of the lattice: a matrix
\* of determinant 1 or -1 takes every vertex i to the vertex g[i]
LatticeSymmetry(P, g) ==
    \E U \in Unimodulars(P.n) :
        \A i \in Idx(P.nv) : ChangeBasis(P, U).x[i] = P.x[g[i]]

\* C15 as stated: for the triangle (1,0), (0,1), (-1,-1) Make_Poly_Sym_NF
\* reports a symmetry group of size 1, the identity alone.
C15_TriangleAsymmetric ==
    (ppc = "sym" /\ Poly = Triangle) => SymNum = 1

\* C15 amended: for the triangle (1,0), (0,1), (-1,-1) Make_Poly_Sym_NF
\* reports a symmetry group of size 6: V_perm[0..5] are the six orders of
\* the three vertices, the identity first, and each of them is a symmetry
\* of the lattice.
C15_TriangleSymmetric ==
    (ppc = "sym" /\ Poly = Triangle) =>
        /\ SymNum = 6
        /\ {V_perm[k] : k \in Idx(SymNum)} = Perms(3)
        /\ V_perm[0] = Unpermuted(3)
        /\ \A k \in Idx(SymNum) : LatticeSymmetry(Poly, V_perm[k])

\* Make_Poly_Sym_NF returned for the triangle (1,0), (0,1), (-1,-1) with
\* more than one line of V_perm, one of them a symmetry of the lattice that
\* fixes no vertex
C15_Witness ==
    /\ ppc = "sym"
    /\ Poly = Triangle
    /\ SymNum > 1
    /\ \E k \in Idx(SymNum) :
          /\ \A j \in Idx(3) : V_perm[k][j] # j
          /\ LatticeSymmetry(Poly, V_perm[k])

-----------------------------------------------------------------------------
(* Properties of the check against NFX_Limit                               *)

\* the entries of the d x v matrix M larger than NFX_Limit in absolute value
OverLimit(M, d, v) ==
    {ij \in Idx(d) \X Idx(v) : Abs(M[ij[1]][ij[2]]) > NFX_Limit}

\* C16: GLZ_Make_Trian_NF returns 0 if and only if some entry of the
\* echelon form NF it computed is larger than NFX_Limit in absolute value;
\* otherwise it returns 1 and X is the whole of NF, so that it never returns
\* 1 with an entry of X over the limit.
C16_LimitGuard ==
    pc = "done" =>
        /\ ret \in {0, 1}
        /\ ret = 0 <=> OverLimit(NF, n, nv) # {}
        /\ ret = 1 => X = NF /\ OverLimit(X, n, nv) = {} /\ IsEchelon(X, n, nv)

\* GLZ_Make_Trian_NF returned 0 with two lines or more, no entry of the
\* first line being over the limit, which X holds on return
C16_Witness ==
    /\ pc = "done"
    /\ ret = 0
    /\ n >= 2
    /\ \A ij \in OverLimit(NF, n, nv) : ij[1] > 0
    /\ X[0] = NF[0]
    /\ X # Xin

-----------------------------------------------------------------------------
(* How Make_Poly_NF and Make_Poly_Sym_NF end when a limit is crossed       *)

\* the reduction of some candidate of the polytope P has an entry over
\* NFX_Limit
EntryLimitCrossed(P) ==
    With(Init_rVM_VPM(P), LAMBDA a :
    With(OrderedCandidates(a.v, a.f, a.VPM), LAMBDA c :
        /\ ~a.exit
        /\ ~c.exit
        /\ \E k \in Idx(c.ns) :
              \E r \in {Aux_Make_Poly_NF(Columns(a.VM, a.d, a.v, c.CL[k].C),
                                         a.d, a.v)} : ~r.oob /\ r.ret = 0))

\* the pairing matrix of the polytope P has more than SYM_Nmax candidates
CeilingCrossed(P) ==
    With(Init_rVM_VPM(P), LAMBDA a :
        ~a.exit /\ OrderedCandidates(a.v, a.f, a.VPM).exit)

\* C17: when the reduction of a candidate crosses NFX_Limit or the number of
\* candidates crosses SYM_Nmax inside Make_Poly_NF or Make_Poly_Sym_NF, the
\* call returns to its caller; the program is not ended.
C17_LimitsReported ==
    (EntryLimitCrossed(Poly) \/ CeilingCrossed(Poly)) =>
        ppc \notin {"exit", "symexit"}

-----------------------------------------------------------------------------
(* Properties of INV_GLZmatrix                                             *)

\* C19: for a matrix G of determinant 1 or -1 INV_GLZmatrix returns with
\* Ginv * G the unit matrix; for a matrix G of another determinant than 0,
\* 1 and -1 it stops at assert(0) and does not return; it returns for no
\* other matrix.
C19_InverseOrAbort ==
    cpc \in {"returned", "abort", "oob"} =>
        With(Det(arg.G, arg.d), LAMBDA dt :
            /\ Abs(dt) = 1 =>
                  /\ cpc = "returned"
                  /\ MatMul(out.Ginv, arg.G, arg.d, arg.d, arg.d)
                        = Identity(arg.d)
            /\ (dt # 0 /\ Abs(dt) # 1) => cpc = "abort"
            /\ cpc = "returned" => Abs(dt) = 1)

\* INV_GLZmatrix returned for a matrix of three lines and determinant -1
\* that is not its own inverse and has no 0 in its first line
C19_Witness ==
    /\ cpc = "returned"
    /\ arg.d = 3
    /\ Det(arg.G, arg.d) = -1
    /\ out.Ginv # arg.G
    /\ \A j \in Idx(arg.d) : arg.G[0][j] # 0

-----------------------------------------------------------------------------
(* Properties of GL_RoundQ                                                 *)

\* Q is an integer closest to N / D
Closest(Q, N0, D0) == 2 * Abs(N0 - Q * D0) <= Abs(D0)

\* N / D lies halfway between Q and a neighbour of Q
Halfway(Q, N0, D0) == 2 * Abs(N0 - Q * D0) = Abs(D0)

\* Q < N / D
BelowRatio(Q, N0, D0) == IF D0 > 0 THEN Q * D0 < N0 ELSE Q * D0 > N0

\* C20 as stated: GL_RoundQ(N,D) is the integer closest to N / D, and the
\* lower of the two when N / D lies halfway between two integers.
C20_RoundHalfDown ==
    cpc = "returned" =>
        /\ Closest(out.Q, arg.N, arg.D)
        /\ Halfway(out.Q, arg.N, arg.D) => BelowRatio(out.Q, arg.N, arg.D)

\* C20 amended: GL_RoundQ(N,D) is the integer closest to N / D, and the one
\* further from 0 when N / D lies halfway between two integers: the upper
\* one for N / D > 0, the lower one for N / D < 0.
C20_RoundHalfAway ==
    cpc = "returned" =>
        /\ Closest(out.Q, arg.N, arg.D)
        /\ Halfway(out.Q, arg.N, arg.D) =>
              /\ Abs(out.Q * arg.D) > Abs(arg.N)
              /\ BelowRatio(out.Q, arg.N, arg.D) <=> ~BelowRatio(0, arg.N, arg.D)

\* GL_RoundQ returned for N > 0 and D < -1 with N / D halfway between two
\* integers
C20_Witness ==
    /\ cpc = "returned"
    /\ arg.N > 0
    /\ arg.D < -1
    /\ Halfway(out.Q, arg.N, arg.D)

-----------------------------------------------------------------------------
(* Properties of GL_W_to_GLZ                                               *)

\* C21: after GL_W_to_GLZ(W,d,GLZ) on d >= 3 non-zero integers every entry
\* below the diagonal is at most half the diagonal entry of its column in
\* absolute value, 2*|GLZ[i][j]| <= |GLZ[j][j]| for 1 <= j < i < d, and so
\* is line 0, 2*|GLZ[0][j]| <= |GLZ[j][j]| for 1 <= j <= d-2.
C21_BoundedCombination ==
    (cpc = "returned" /\ arg.d >= 3) =>
        /\ \A i \in Idx(arg.d) : \A j \in Idx(arg.d) :
              (1 <= j /\ j < i) =>
                  2 * Abs(out.GLZ[i][j]) <= Abs(out.GLZ[j][j])
        /\ \A j \in 1 .. (arg.d - 2) :
              2 * Abs(out.GLZ[0][j]) <= Abs(out.GLZ[j][j])

\* GL_W_to_GLZ returned for four integers, an entry below the diagonal
\* being exactly half the diagonal entry of its column and line 0 having a
\* non-zero entry in column 1
C21_Witness ==
    /\ cpc = "returned"
    /\ arg.d = 4
    /\ \E i \in Idx(arg.d) : \E j \in Idx(arg.d) :
          /\ 1 <= j
          /\ j < i
          /\ out.GLZ[i][j] # 0
          /\ 2 * Abs(out.GLZ[i][j]) = Abs(out.GLZ[j][j])
    /\ out.GLZ[0][1] # 0

RECURSIVE GcdOf(_, _)
\* the greatest common divisor of |W[0]|, .., |W[k-1]|
GcdOf(W, k) == IF k = 0 THEN 0 ELSE Gcd(GcdOf(W, k - 1), Abs(W[k - 1]))

\* line i of M dotted with W
Dot(M, W, d, i) == SumF([j \in Idx(d) |-> M[i][j] * W[j]], 0, d - 1)

\* C22: for d >= 2 non-zero integers W, GL_W_to_GLZ returns g with
\* |g| = gcd(|W[0]|, .., |W[d-1]|), line 0 of GLZ dotted with W is g, every
\* other line dotted with W is 0, and det(GLZ) is 1 or -1.
C22_GcdCombination ==
    cpc = "returned" =>
        /\ Abs(out.g) = GcdOf(arg.W, arg.d)
        /\ Dot(out.GLZ, arg.W, arg.d, 0) = out.g
        /\ \A i \in 1 .. (arg.d - 1) : Dot(out.GLZ, arg.W, arg.d, i) = 0
        /\ Abs(Det(out.GLZ, arg.d)) = 1

\* GL_W_to_GLZ returned a negative g that is not 1 in absolute value for
\* four integers of both signs
C22_Witness ==
    /\ cpc = "returned"
    /\ arg.d = 4
    /\ out.g < -1
    /\ \E j \in Idx(arg.d) : arg.W[j] > 0
    /\ \E j \in Idx(arg.d) : arg.W[j] < 0

-----------------------------------------------------------------------------
(* Properties of Aux_vNF_Init and Aux_vNF_Line                             *)

\* first and last position of the block of S that holds the position c
BlockFirst(Sf, c) == IF Sf[c] < c THEN Sf[c] ELSE c

BlockLast(Sf, c) == Sf[BlockFirst(Sf, c)]

\* the entries of the line y read through the column order Cp
ReadThrough(y, Cp, v) == [j \in Idx(v) |-> y[Cp[j]]]

\* the entry at position c when the entries of z are arranged
\* non-increasingly inside each block of S
ArrangedAt(z, Sf, c) ==
    LET a == BlockFirst(Sf, c)
        b == BlockLast(Sf, c)
        rank == c - a
    IN  CHOOSE m \in {z[j] : j \in a .. b} :
            /\ Cardinality({j \in a .. b : z[j] > m}) <= rank
            /\ Cardinality({j \in a .. b : z[j] >= m}) > rank

Arranged(z, Sf, v) == [c \in Idx(v) |-> ArrangedAt(z, Sf, c)]

\* the best arrangements on offer to Aux_vNF_Line(l): one for every retained
\* candidate and every line it has not yet placed at 0..l-1
Offers(l) ==
    {Arranged(ReadThrough(VPM[CL[k].L[i]], CL[k].C, Xnv), Sblk, Xnv) :
        k \in Idx(ns), i \in l .. Xnf - 1}

\* line l as the candidate p gives it
LineOf(p, l) == ReadThrough(VPM[p.L[l]], p.C, Xnv)

\* Aux_vNF_Line(line) is called and returns
LineStep == vpc = "lines" /\ line < Xnf - 1 /\ vpc' = "lines" /\ line' = line + 1

\* C23: after Aux_vNF_Line(l) every retained candidate gives, as line l, the
\* lexicographic maximum, over the candidates retained before the call and
\* their lines not yet placed at 0..l-1, of the line's entries arranged
\* non-increasingly inside each column block of S; a candidate is retained
\* only with such a line, so that smaller arrangements and everything kept
\* before a larger one was found are discarded.
C23_GreedyLine ==
    [][LineStep =>
          /\ ns' >= 1
          /\ \A k \in Idx(ns') :
                /\ LineOf(CL'[k], line) \in Offers(line)
                /\ \A o \in Offers(line) : LexLeq(o, LineOf(CL'[k], line))
                /\ \E q \in Idx(ns) : \E i \in line .. Xnf - 1 :
                      /\ \A h \in Idx(line) : CL'[k].L[h] = CL[q].L[h]
                      /\ CL'[k].L[line] = CL[q].L[i]
                      /\ Arranged(ReadThrough(VPM[CL[q].L[i]], CL[q].C, Xnv),
                                  Sblk, Xnv) = LineOf(CL'[k], line)]_vars

\* Aux_vNF_Line(1) has returned for a matrix of 4 lines and 3 columns: it
\* retained several candidates, one of which took another line than line 1
\* of the input, and the line it fixed has entries that differ inside a
\* block of line 0
C23_Witness ==
    /\ vpc = "lines"
    /\ line = 2
    /\ Xnf = 4
    /\ Xnv = 3
    /\ ns >= 2
    /\ \E k \in Idx(ns) : CL[k].L[1] \notin {0, 1}
    /\ VPM[CL[0].L[0]][CL[0].C[0]] = VPM[CL[0].L[0]][CL[0].C[1]]
    /\ LineOf(CL[0], 1)[0] > LineOf(CL[0], 1)[1]


\* the candidates 0..ns-1 give the same lines 0..l, line 0 non-increasing
PrefixAgreed(l) ==
    /\ ns >= 1
    /\ \A k \in Idx(ns) :
          /\ IsCandidate(CL[k], Xnf, Xnv)
          /\ \A i \in 0 .. l : LineOf(CL[k], i) = LineOf(CL[0], i)
    /\ \A j \in 1 .. Xnv - 1 : LineOf(CL[0], 0)[j - 1] >= LineOf(CL[0], 0)[j]

\* Aux_vNF_Init or Aux_vNF_Line(line' - 1) has returned
LinesFixed == vpc = "lines"

\* C24: after Aux_vNF_Init (l = 0) and after every Aux_vNF_Line(l),
\* l = 1..f-2, at least one candidate is retained and all retained
\* candidates give the same entries x[CL[k].L[i]][CL[k].C[j]] in the lines
\* i <= l; line 0 is non-increasing, and the column swaps made for line l
\* leave the lines 0..l-1 as they were.
C24_PrefixAgreement ==
    [][/\ LinesFixed' => PrefixAgreed(line - 1)'
       /\ LineStep =>
             \A k \in Idx(ns') : \A i \in Idx(line) :
                 LineOf(CL'[k], i) = LineOf(CL[0], i)]_vars

\* Aux_vNF_Line(2) has returned for a matrix of 4 lines and 3 columns with
\* candidates that differ in their lines and in their columns, the lines
\* 0, 1 and 2 being three different lines with unequal entries
C24_Witness ==
    /\ LinesFixed
    /\ line = 3
    /\ Xnf = 4
    /\ Xnv = 3
    /\ \E k \in Idx(ns) : CL[k].L # CL[0].L /\ CL[k].C # CL[0].C
    /\ Cardinality({LineOf(CL[0], i) : i \in 0 .. 2}) = 3
    /\ \E k \in Idx(ns) : CL[k].C # Unpermuted(Xnv)


\* S encodes a partition of the positions 0..v-1 into ranges: S[i] is the
\* last position of the block that i starts and the first position of its
\* block otherwise
Encodes(Sf, v) ==
    /\ DOMAIN Sf = Idx(v)
    /\ \A c \in Idx(v) :
          LET a == BlockFirst(Sf, c)
              b == BlockLast(Sf, c)
          IN  /\ 0 <= a /\ a <= c /\ c <= b /\ b < v
              /\ Sf[a] >= a
              /\ \A j \in (a + 1) .. b : Sf[j] = a
              /\ a = 0 \/ BlockLast(Sf, a - 1) = a - 1

SameBlock(Sf, p, q) == BlockFirst(Sf, p) = BlockFirst(Sf, q)

\* the line y has the same entry at the positions p..q
EqualBetween(y, p, q) == \A j \in p .. q : y[j] = y[p]

\* C25: the partition of the columns encoded in S only gets finer.  After
\* Aux_vNF_Init and after each Aux_vNF_Line(l) every block is a range of
\* positions, S[i] is the last position of its block when i starts a block
\* and the first position of its block otherwise, and two positions share a
\* block exactly when they shared one before (all positions before
\* Aux_vNF_Init) and the candidates' entries in the line just fixed are
\* equal at every position between them.
C25_BlocksRefined ==
    [][/\ LinesFixed' => Encodes(Sblk', Xnv)
       /\ (vpc = "init" /\ LinesFixed') =>
             \A k \in Idx(ns') : \A p, q \in Idx(Xnv) :
                 p <= q => (SameBlock(Sblk', p, q)
                               <=> EqualBetween(LineOf(CL'[k], 0), p, q))
       /\ LineStep =>
             \A k \in Idx(ns') : \A p, q \in Idx(Xnv) :
                 p <= q => (SameBlock(Sblk', p, q)
                               <=> /\ SameBlock(Sblk, p, q)
                                   /\ EqualBetween(LineOf(CL'[k], line),
                                                   p, q))]_vars

\* Aux_vNF_Line(2) has returned for a matrix of 4 lines and 3 columns: line
\* 0 left the three columns in one block, line 1 split the last column off
\* and line 2 split the remaining block
C25_Witness ==
    /\ LinesFixed
    /\ line = 3
    /\ Xnf = 4
    /\ Xnv = 3
    /\ EqualBetween(LineOf(CL[0], 0), 0, 2)
    /\ EqualBetween(LineOf(CL[0], 1), 0, 1)
    /\ LineOf(CL[0], 1)[1] # LineOf(CL[0], 1)[2]
    /\ LineOf(CL[0], 2)[0] # LineOf(CL[0], 2)[1]
    /\ Sblk = (0 :> 0) @@ (1 :> 1) @@ (2 :> 2)


\* the largest index k of a write "p=&CL[*_ns]; *p=P;" of Aux_vNF_Init: *_ns
\* when the line nn is tried is the number of candidates that the lines
\* 1..nn-1 left
InitHighWater(x, nf, v) ==
    LET q == [L |-> Unpermuted(nf),
              C |-> ExchangeSort(x[0], Unpermuted(v), 0, v)]
        at(nn) == Cardinality(DOMAIN InitLines(x, nn, v, (0 :> q), x[0], 1))
    IN  IF nf = 1 THEN 0
        ELSE CHOOSE m \in {at(nn) : nn \in 1 .. nf - 1} :
                 \A nn \in 1 .. nf - 1 : at(nn) <= m

RECURSIVE WantedCounts(_, _, _, _, _, _, _)
\* the counts cf = *_ns + np that the passes k, k-1, .., 0 of the loop
\* "while(n--)" of Aux_vNF_Line come to when none of them ends the program
WantedCounts(x, l, nf, v, Sf, k, u) ==
    IF k < 0 THEN {}
    ELSE LET w0  == [nP |-> (0 :> u.CL[k]), np |-> 0, r |-> u.r,
                     cf |-> u.cf, ccf |-> u.cf, ns |-> u.ns, L |-> l]
             w2  == ColumnLoop(x, l, v, Sf, k, 1,
                               LineChoice(x, l, nf, Sf, u.CL[k], k, w0))
             ns1 == w2.ns - 1
             cl1 == Compact(u.CL, k, ns1)
         IN  {ns1 + w2.np} \cup
             WantedCounts(x, l, nf, v, Sf, k - 1,
                 [CL |-> [i \in Idx(ns1 + w2.np) |->
                             IF i < ns1 THEN cl1[i] ELSE w2.nP[i - ns1]],
                  ns |-> ns1 + w2.np, r |-> w2.r, cf |-> TRUE])

\* the counts that Aux_vNF_Line(line) comes to for the candidates at hand
LineCounts ==
    WantedCounts(VPM, line, Xnf, Xnv, Sblk, ns - 1,
                 [CL |-> CL, ns |-> ns, r |-> << >>, cf |-> FALSE])

\* Aux_vNF_Line(line) is called and ends the program
LineExit == vpc = "lines" /\ line < Xnf - 1 /\ vpc' = "exit"

-----------------------------------------------------------------------------
(* Properties of New_pNF_Order                                             *)

\* the largest entry and the sum of the entries of column j of M
ColumnKey(M, f, j) ==
    LET col == [i \in Idx(f) |-> M[i][j]]
    IN  <<CHOOSE a \in {col[i] : i \in Idx(f)} : \A i \in Idx(f) : col[i] <= a,
          SumF(col, 0, f - 1)>>

\* the columns in the order pi have non-decreasing keys
KeysAscend(M, f, v, pi) ==
    \A j \in 1 .. v - 1 :
        LexLeq(ColumnKey(M, f, pi[j - 1]), ColumnKey(M, f, pi[j]))

\* C27: New_pNF_Order computes one permutation pi of the column positions of
\* VPM_NF such that the keys (column maximum, column sum) of the columns
\* pi[0], pi[1], .. are non-decreasing in lexicographic order, and replaces
\* the column order C of every one of the ns candidates by j -> C[pi[j]]
\* with that same pi; the line orders L and the number of candidates stay as
\* they are.
C27_OneColumnOrder ==
    cpc = "returned" =>
        \E pi \in Perms(arg.v) :
            /\ KeysAscend(arg.VPM_NF, arg.f, arg.v, pi)
            /\ DOMAIN out.CL = Idx(arg.ns)
            /\ \A k \in Idx(arg.ns) :
                  /\ out.CL[k].C = [j \in Idx(arg.v) |-> arg.CL[k].C[pi[j]]]
                  /\ out.CL[k].L = arg.CL[k].L

\* New_pNF_Order returned for two candidates and three columns which were
\* not in the order of their keys, two of them with the same maximum and
\* different sums
C27_Witness ==
    /\ cpc = "returned"
    /\ arg.v = 3
    /\ arg.ns = 2
    /\ ~KeysAscend(arg.VPM_NF, arg.f, arg.v, Unpermuted(arg.v))
    /\ \E i, j \in Idx(arg.v) :
          /\ ColumnKey(arg.VPM_NF, arg.f, i)[1] = ColumnKey(arg.VPM_NF, arg.f, j)[1]
          /\ ColumnKey(arg.VPM_NF, arg.f, i)[2] < ColumnKey(arg.VPM_NF, arg.f, j)[2]
    /\ out.CL[0].C # arg.CL[0].C
    /\ out.CL[1].C # out.CL[0].C

-----------------------------------------------------------------------------
(* Properties of the pivot search of GLZ_Make_Trian_NF                     *)

\* C28: for every d x v integer input with v >= d, each of the d pivot
\* searches of GLZ_Make_Trian_NF finds a column with a non-zero entry among
\* the lines not yet pivoted before the column index C reaches v: C stays
\* within 0..v-1 during the pivot loop and no column outside the input is
\* read.
C28_PivotInsideInput ==
    nv >= n =>
        /\ pc # "oob"
        /\ (pc = "pivot" /\ L > 0) => C \in 0 .. nv - 1

-----------------------------------------------------------------------------
(* Properties of GLZ_Make_Trian_NF on the bases of one lattice             *)

\* C29: the echelon form depends only on the lattice of the lines.  For
\* every matrix X of rank d and every d x d matrix U of determinant 1 or -1
\* GLZ_Make_Trian_NF leaves in place of U * X the matrix it leaves in place
\* of X, when both stay within the bound; applied to its own output it
\* leaves the matrix as it is and yields G = identity.
C29_LatticeOnly ==
    cpc = "returned" =>
        /\ ~out.of.oob /\ ~out.image.oob /\ ~out.again.oob
        /\ (out.of.ret = 1 /\ out.image.ret = 1) => out.image.X = out.of.X
        /\ out.of.ret = 1 =>
              /\ out.again.ret = 1
              /\ out.again.X = out.of.X
              /\ out.again.G = Identity(arg.d)

\* the three calls returned 1 for a 2 x 3 matrix that is not in echelon
\* form and a U that mixes its lines: U * X is another matrix, reduced by
\* another G to the same form
C29_Witness ==
    /\ cpc = "returned"
    /\ arg.d = 2
    /\ arg.v = 3
    /\ arg.U[0][1] # 0
    /\ arg.U[1][0] # 0
    /\ arg.U[0][0] # 0
    /\ MatMul(arg.U, arg.X, 2, 2, 3) # arg.X
    /\ out.of.ret = 1
    /\ out.image.ret = 1
    /\ out.of.X # arg.X
    /\ out.image.G # out.of.G
    /\ out.of.G # Identity(2)

-----------------------------------------------------------------------------
(* Properties of Make_Poly_UTriang                                         *)

\* the echelon form that GLZ_Make_Trian_NF computed for the points of arg
EchelonOfPoints ==
    MatMul(out.G, Transposed(arg.x, arg.np, arg.n), arg.n, arg.n, arg.np)

\* the first position, line by line, of an entry of M over NFX_Limit
FirstOver(M, d, v) ==
    CHOOSE k \in Idx(d * v) :
        /\ Abs(M[k \div v][k % v]) > NFX_Limit
        /\ \A h \in Idx(k) : Abs(M[h \div v][h % v]) <= NFX_Limit

\* C30: when GLZ_Make_Trian_NF returns 0 the caller's matrix is left partly
\* overwritten: every entry that precedes, line by line, the first entry of
\* the echelon form larger than NFX_Limit in absolute value holds its value
\* of the echelon form, that entry and all later ones keep their input
\* values; Make_Poly_UTriang ignores the value returned and copies this
\* mixed matrix back into the points.
C30_MixedPointsCopiedBack ==
    (cpc = "returned" /\ out.ret = 0) =>
        /\ OverLimit(EchelonOfPoints, arg.n, arg.np) # {}
        /\ \A i \in Idx(arg.np) : \A j \in Idx(arg.n) :
              out.x[i][j] =
                  IF j * arg.np + i < FirstOver(EchelonOfPoints, arg.n, arg.np)
                  THEN EchelonOfPoints[j][i]
                  ELSE arg.x[i][j]

\* Make_Poly_UTriang returned after GLZ_Make_Trian_NF returned 0 for points
\* in dimension 2: a coordinate before the first entry over the limit has
\* changed, and a coordinate from it on would have changed
C30_Witness ==
    /\ cpc = "returned"
    /\ out.ret = 0
    /\ arg.n >= 2
    /\ \E i \in Idx(arg.np) : \E j \in Idx(arg.n) :
          /\ j * arg.np + i < FirstOver(EchelonOfPoints, arg.n, arg.np)
          /\ out.x[i][j] # arg.x[i][j]
    /\ \E i \in Idx(arg.np) : \E j \in Idx(arg.n) :
          /\ j * arg.np + i >= FirstOver(EchelonOfPoints, arg.n, arg.np)
          /\ out.x[i][j] # EchelonOfPoints[j][i]

=============================================================================
